---- MODULE Spec2Model ----
(***************************************************************************)
(* Model of the serverless handler of api/search.js: the three pipelines   *)
(* (videos, subnicho, rec_channels) as a request-scoped state machine over *)
(* an upstream dataset.                                                    *)
(*                                                                         *)
(* Conventions.  A JavaScript string is a sequence of one-character        *)
(* strings (<<"e","n">>).  A value that may be null/undefined is a         *)
(* sequence of length <= 1: None is <<>>, Some(x) is <<x>>.  Time is       *)
(* counted in days.                                                        *)
(***************************************************************************)
EXTENDS Integers, Sequences, FiniteSets, TLC

-----------------------------------------------------------------------------
(* Program constants                                                       *)

DEFAULT_MIN_VIEWS == 100000
DEFAULT_MAX_SUBS == 50000
DEFAULT_MIN_DURATION_SEC == 480
DEFAULT_DAYS == 30
MAX_PAGES == 2
DURATIONS == <<"medium", "long">>
DEFAULT_ALLOWED_LANGS ==
  {"en","es","fr","de","pt","it","ru","ja","ko","nl","pl","el","ro","da","no","ga"}

COUNTRY_TO_LANG ==
  [c \in {"US","GB","AU","NZ","IE","IN"} |-> "en"] @@
  [c \in {"BR","PT"} |-> "pt"] @@
  [c \in {"ES","MX","AR","CO","CL","PE","VE","UY","EC","BO","CR","DO","GT",
          "HN","NI","PA","PR","SV","PY"} |-> "es"] @@
  [c \in {"FR","BE","LU","CH"} |-> "fr"] @@
  [c \in {"DE","AT"} |-> "de"] @@
  [c \in {"IT","SM","VA"} |-> "it"] @@
  [c \in {"RU","BY","KZ"} |-> "ru"] @@
  [c \in {"JP"} |-> "ja"] @@ [c \in {"KR"} |-> "ko"] @@
  [c \in {"NL"} |-> "nl"] @@ [c \in {"PL"} |-> "pl"] @@
  [c \in {"GR"} |-> "el"] @@ [c \in {"RO","MD"} |-> "ro"] @@
  [c \in {"DK"} |-> "da"] @@ [c \in {"NO"} |-> "no"]

SUBNICHO_DAYS == 60
SUBNICHO_MIN_VIEWS == 500000
STREAK_WINDOW_DAYS == 30
STREAK_MIN_VIEWS == 15000
STREAK_COUNT == 14
STREAK_MAX_SUBS == 150000
MAX_CHANNEL_CANDIDATES == 25
BATCH_SIZE == 50

-----------------------------------------------------------------------------
(* JavaScript values                                                       *)

None == <<>>
Some(x) == <<x>>
IsNone(o) == o = <<>>
Val(o) == o[1]

Min(a, b) == IF a <= b THEN a ELSE b
Max(a, b) == IF a >= b THEN a ELSE b

UpperChars == <<"A","B","C","D","E","F","G","H","I","J","K","L","M",
                "N","O","P","Q","R","S","T","U","V","W","X","Y","Z">>
LowerChars == <<"a","b","c","d","e","f","g","h","i","j","k","l","m",
                "n","o","p","q","r","s","t","u","v","w","x","y","z">>
DigitChars == <<"0","1","2","3","4","5","6","7","8","9">>
Whitespace == {" "}

IndexIn(seq, c) ==
  IF \E i \in 1..Len(seq) : seq[i] = c
  THEN CHOOSE i \in 1..Len(seq) : seq[i] = c
  ELSE 0

IsDigit(c) == IndexIn(DigitChars, c) > 0
DigitVal(c) == IndexIn(DigitChars, c) - 1

\* String.prototype.toLowerCase / toUpperCase
ToLowerCase(s) ==
  [i \in 1..Len(s) |->
     IF IndexIn(UpperChars, s[i]) > 0 THEN LowerChars[IndexIn(UpperChars, s[i])] ELSE s[i]]
ToUpperCase(s) ==
  [i \in 1..Len(s) |->
     IF IndexIn(LowerChars, s[i]) > 0 THEN UpperChars[IndexIn(LowerChars, s[i])] ELSE s[i]]

\* The character sequence as one TLA+ string (the value used as a key)
RECURSIVE Str(_)
Str(s) == IF s = <<>> THEN "" ELSE Head(s) \o Str(Tail(s))

\* String.prototype.trim
RECURSIVE TrimLeft(_)
TrimLeft(s) ==
  IF s # <<>> /\ Head(s) \in Whitespace THEN TrimLeft(Tail(s)) ELSE s
RECURSIVE TrimRight(_)
TrimRight(s) ==
  IF s # <<>> /\ s[Len(s)] \in Whitespace THEN TrimRight(SubSeq(s, 1, Len(s) - 1)) ELSE s
Trim(s) == TrimRight(TrimLeft(s))

\* String.prototype.split(sep) for a one-character separator
RECURSIVE SplitFrom(_, _, _)
SplitFrom(s, sep, cur) ==
  IF s = <<>> THEN <<cur>>
  ELSE IF Head(s) = sep THEN <<cur>> \o SplitFrom(Tail(s), sep, <<>>)
  ELSE SplitFrom(Tail(s), sep, Append(cur, Head(s)))
Split(s, sep) == SplitFrom(s, sep, <<>>)

\* String.prototype.includes
Includes(s, sub) ==
  \E i \in 1..(Len(s) - Len(sub) + 1) : SubSeq(s, i, i + Len(sub) - 1) = sub

\* Array.prototype.map over sequences (filter is SelectSeq)
MapSeq(seq, F(_)) == [i \in 1..Len(seq) |-> F(seq[i])]

Range(seq) == {seq[i] : i \in 1..Len(seq)}

\* Insertion into an array, which keeps duplicates
SetAddKeepingDuplicates(seq, x) == Append(seq, x)

\* Insertion into a JavaScript Set kept in insertion order
SetAdd(seq, x) == IF x \in Range(seq) THEN seq ELSE Append(seq, x)
RECURSIVE SetAddAll(_, _)
SetAddAll(seq, xs) ==
  IF xs = <<>> THEN seq
  ELSE LET next == SetAdd(seq, Head(xs))
       IN IF next = seq THEN SetAddAll(seq, Tail(xs)) ELSE SetAddAll(next, Tail(xs))

\* The length of the run of decimal digits at the start of s
RECURSIVE DigitRun(_)
DigitRun(s) == IF s # <<>> /\ IsDigit(Head(s)) THEN 1 + DigitRun(Tail(s)) ELSE 0
RECURSIVE DigitsValue(_, _)
DigitsValue(s, acc) ==
  IF s = <<>> THEN acc ELSE DigitsValue(Tail(s), 10 * acc + DigitVal(Head(s)))

\* parseInt(s, 10): [nan |-> TRUE] stands for NaN
NaN == [nan |-> TRUE, v |-> 0]
Num(n) == [nan |-> FALSE, v |-> n]
ParseInt(str) ==
  LET t == TrimLeft(str)
      neg == t # <<>> /\ Head(t) = "-"
      u == IF t # <<>> /\ Head(t) \in {"-", "+"} THEN Tail(t) ELSE t
      n == DigitRun(u)
  IN IF n = 0 THEN NaN
     ELSE Num((IF neg THEN -1 ELSE 1) * DigitsValue(SubSeq(u, 1, n), 0))

\* Number(x || 0) for a numeric field that may be absent
NumberOr0(o) == IF IsNone(o) \/ Val(o) = 0 THEN 0 ELSE Val(o)

\* parseInt(param || dflt, 10) || dflt: the query parameter is a string (or
\* absent), the default a number
ParseOrDefault(param, dflt) ==
  LET p == IF IsNone(param) \/ Val(param) = <<>> THEN Num(dflt) ELSE ParseInt(Val(param))
  IN IF p.nan \/ p.v = 0 THEN dflt ELSE p.v

-----------------------------------------------------------------------------
(* Helpers of api/search.js                                                *)

\* The tag lower-cased with its region suffix kept
normalizeLangKeepingRegion(code) ==
  LET s == IF IsNone(code) THEN <<>> ELSE Val(code)
  IN IF s = <<>> THEN None ELSE Some(Str(ToLowerCase(s)))

\* normalizeLang: (code || '').toLowerCase().split('-')[0] || null
normalizeLang(code) ==
  LET s == IF IsNone(code) THEN <<>> ELSE Val(code)
      base == Split(ToLowerCase(s), "-")[1]
  IN IF base = <<>> THEN None ELSE Some(Str(base))

\* The instant twice as far back
isoXDaysAgoDoubled(nowT, days) == nowT - 2 * days

\* isoXDaysAgo: Date.now() minus `days` days.  toISOString and the later
\* new Date(..).getTime() are exact to the millisecond, so the instant is kept.
isoXDaysAgo(nowT, days) == nowT - days

\* One optional group (\d+)<letter> of the duration pattern, read at the start
\* of s: its value (parseInt(m[k] || '0')) and what follows it
ReadGroup(s, letter) ==
  LET n == DigitRun(s)
  IN IF n > 0 /\ Len(s) > n /\ s[n + 1] = letter
     THEN [v |-> DigitsValue(SubSeq(s, 1, n), 0), rest |-> SubSeq(s, n + 2, Len(s))]
     ELSE [v |-> 0, rest |-> s]

\* The pattern without its hours group
parseISODurationNoHours(iso) ==
  IF IsNone(iso) \/ Val(iso) = <<>> THEN 0
  ELSE
    LET s == Val(iso) IN
    IF ~Includes(s, <<"P","T">>) THEN 0
    ELSE
      LET at == CHOOSE i \in 1..(Len(s) - 1) :
                  /\ SubSeq(s, i, i + 1) = <<"P","T">>
                  /\ \A j \in 1..(i - 1) : SubSeq(s, j, j + 1) # <<"P","T">>
          gm == ReadGroup(SubSeq(s, at + 2, Len(s)), "M")
          gs == ReadGroup(gm.rest, "S")
      IN gm.v * 60 + gs.v

\* parseISODuration: first occurrence of "PT", then optional H, M, S groups
parseISODuration(iso) ==
  IF IsNone(iso) \/ Val(iso) = <<>> THEN 0
  ELSE
    LET s == Val(iso) IN
    IF ~Includes(s, <<"P","T">>) THEN 0
    ELSE
      LET at == CHOOSE i \in 1..(Len(s) - 1) :
                  /\ SubSeq(s, i, i + 1) = <<"P","T">>
                  /\ \A j \in 1..(i - 1) : SubSeq(s, j, j + 1) # <<"P","T">>
          gh == ReadGroup(SubSeq(s, at + 2, Len(s)), "H")
          gm == ReadGroup(gh.rest, "M")
          gs == ReadGroup(gm.rest, "S")
      IN gh.v * 3600 + gm.v * 60 + gs.v

\* pickThumb: the first present of maxres, standard, high, medium, default
ThumbKeys == <<"maxres", "standard", "high", "medium", "default">>
pickThumb(thumbnails) ==
  IF IsNone(thumbnails) THEN None
  ELSE
    LET t == Val(thumbnails)
        present == {i \in 1..Len(ThumbKeys) : ~IsNone(t[ThumbKeys[i]])}
    IN IF present = {} THEN None
       ELSE t[ThumbKeys[CHOOSE i \in present : \A j \in present : i <= j]]

-----------------------------------------------------------------------------
(* Bounds of the model                                                     *)

\* Videos the upstream catalogue holds beside the first one
MaxExtraVideos == 1
\* Channels discovered beyond MAX_CHANNEL_CANDIDATES in the largest dataset
MaxOverCap == 1
\* Uploads of a channel beyond STREAK_COUNT in the longest upload history
MaxExtraUploads == 1
\* Identifiers found beyond BATCH_SIZE in the largest search result
MaxOverBatch == 1
\* Pages of one upload history the model follows before it stops looking
MaxPlaylistPages == 6

\* The instant of the request (Date.now()), in days
NowValues == {1000}
\* Non-success statuses the upstream answers with
FailStatuses == {403}

-----------------------------------------------------------------------------
(* Strings of the requests and of the upstream records                     *)

S_videos == <<"v","i","d","e","o","s">>
S_subnicho == <<"s","u","b","n","i","c","h","o">>
S_rec_channels == <<"r","e","c","_","c","h","a","n","n","e","l","s">>
S_shorts == <<"#","s","h","o","r","t","s">>

T_plain == <<"M","y"," ","v","i","d","e","o">>
T_shorts == <<"c","l","i","p"," ","#","S","h","o","r","t","s">>
T_noHash == <<"s","h","o","r","t","s">>

D_10M == <<"P","T","1","0","M">>
D_8M == <<"P","T","8","M">>
D_7M59S == <<"P","T","7","M","5","9","S">>
D_1H2M5S == <<"P","T","1","H","2","M","5","S">>
D_30S == <<"P","T","3","0","S">>

\* The decimal digits of a natural number
RECURSIVE DigitsOf(_)
DigitsOf(n) ==
  IF n < 10 THEN <<DigitChars[n + 1]>>
  ELSE Append(DigitsOf(n \div 10), DigitChars[(n % 10) + 1])

\* The duration code of a set of components: "PT", then the hours, minutes
\* and seconds that are present, each followed by its letter
DurationPart(o, letter) == IF IsNone(o) THEN <<>> ELSE Append(DigitsOf(Val(o)), letter)
DurationCode(comp) ==
  <<"P","T">> \o DurationPart(comp.h, "H") \o DurationPart(comp.m, "M")
              \o DurationPart(comp.s, "S")
\* The components the durations of the datasets are made of
DurationComponents ==
  [h : {None, Some(0), Some(1)},
   m : {None, Some(2), Some(7), Some(8), Some(10)},
   s : {None, Some(5), Some(30), Some(59)}]
Components(h, m, s) == [h |-> h, m |-> m, s |-> s]

Thumb(w, h) == [width |-> Some(w), height |-> Some(h)]
NoThumbs == [k \in Range(ThumbKeys) |-> None]
OnlyThumb(key, t) == [NoThumbs EXCEPT ![key] = Some(t)]

-----------------------------------------------------------------------------
(* The upstream API, answering from a dataset `u`                          *)

\* search.list: the page the token names (0 is the first page).  An item may
\* carry no videoId; a page past the last one is empty.
SearchResponse(u, duration, pageToken) ==
  LET pages == u.search[duration]
      n == IF pageToken = 0 THEN 1 ELSE pageToken
  IN IF n > Len(pages) THEN [items |-> <<>>, nextPageToken |-> 0]
     ELSE [items |-> pages[n].items,
           nextPageToken |-> IF pages[n].more THEN n + 1 ELSE 0]

\* videos.list: the records of the requested ids the upstream still holds, in
\* request order
VideosResponse(u, batch) ==
  LET have == SelectSeq(batch, LAMBDA id : ~IsNone(u.videos[id]))
  IN [items |-> [k \in 1..Len(have) |-> Val(u.videos[have[k]])]]

\* channels.list, likewise
ChannelsResponse(u, batch) ==
  LET have == SelectSeq(batch, LAMBDA id : ~IsNone(u.channels[id]))
  IN [items |-> [k \in 1..Len(have) |-> Val(u.channels[have[k]])]]

\* The body of a non-success upstream answer
UpstreamBody(status) == <<"upstream error body", status>>

-----------------------------------------------------------------------------
(* Request parsing (module.exports, lines 131-153)                         *)

OrEmpty(param) == IF IsNone(param) THEN <<>> ELSE Val(param)

\* The search text taken without trim()
qRawOfUntrimmed(r) == OrEmpty(r.q)

qRawOf(r) == Trim(OrEmpty(r.q))

modeOf(r) ==
  Trim(IF IsNone(r.mode) \/ Val(r.mode) = <<>> THEN S_videos ELSE Val(r.mode))

minViewsOf(r) == Max(0, ParseOrDefault(r.minViews, DEFAULT_MIN_VIEWS))
maxSubsOf(r) == Max(0, ParseOrDefault(r.maxSubs, DEFAULT_MAX_SUBS))
minDurationSecOf(r) == Max(0, ParseOrDefault(r.minDurationSec, DEFAULT_MIN_DURATION_SEC))
daysOf(r) == Max(1, ParseOrDefault(r.days, DEFAULT_DAYS))
\* The page budget without the clamp to MAX_PAGES
pagesOfUnclamped(r) == Max(1, ParseOrDefault(r.pages, 1))

pagesOf(r) == Min(Max(1, ParseOrDefault(r.pages, 1)), MAX_PAGES)

allowedLangsSetOf(r) ==
  LET langsParam == Trim(OrEmpty(r.langs))
  IN IF langsParam = <<>> THEN DEFAULT_ALLOWED_LANGS
     ELSE LET parts == Split(langsParam, ",")
          IN {Val(normalizeLang(Some(parts[i]))) :
                i \in {j \in 1..Len(parts) : ~IsNone(normalizeLang(Some(parts[j])))}}

termsOf(qRaw) ==
  IF Includes(qRaw, <<",">>)
  THEN SelectSeq(MapSeq(Split(qRaw, ","), Trim), LAMBDA t : t # <<>>)
  ELSE <<qRaw>>

ResolveConfig(r) ==
  [mode |-> modeOf(r),
   minViews |-> minViewsOf(r),
   maxSubs |-> maxSubsOf(r),
   minDurationSec |-> minDurationSecOf(r),
   days |-> daysOf(r),
   pages |-> pagesOf(r),
   allowedLangsSet |-> allowedLangsSetOf(r),
   terms |-> termsOf(qRawOf(r))]

-----------------------------------------------------------------------------
(* Videos mode: per-video predicate, channel metadata, final filter        *)

\* a || b on two strings that may be absent or empty
OrElse(a, b) ==
  IF ~IsNone(a) /\ Val(a) # <<>> THEN a
  ELSE IF ~IsNone(b) /\ Val(b) # <<>> THEN b ELSE None

\* ratio = w > 0 && h > 0 ? w / h : 16/9, kept as the fraction <<w, h>>
ratioOf(thumb) ==
  LET w == IF IsNone(thumb) THEN 0 ELSE NumberOr0(Val(thumb).width)
      h == IF IsNone(thumb) THEN 0 ELSE NumberOr0(Val(thumb).height)
  IN IF w > 0 /\ h > 0 THEN <<w, h>> ELSE <<16, 9>>

\* ratio >= 1.2
isHorizontal(ratio) == 5 * ratio[1] >= 6 * ratio[2]

\* new Date(publishedAt).getTime() >= new Date(publishedAfter).getTime()
isRecent(publishedAt, publishedAfter) == publishedAt >= publishedAfter

\* The condition without its duration floor
PerVideoPredicateNoDuration(viewCount, publishedAt, durationSec, ratio, title, c, publishedAfter) ==
  /\ viewCount >= c.minViews
  /\ isRecent(publishedAt, publishedAfter)
  /\ isHorizontal(ratio)
  /\ ~Includes(ToLowerCase(title), S_shorts)

\* The condition of lines 197-203
PerVideoPredicate(viewCount, publishedAt, durationSec, ratio, title, c, publishedAfter) ==
  /\ viewCount >= c.minViews
  /\ isRecent(publishedAt, publishedAfter)
  /\ durationSec >= c.minDurationSec
  /\ isHorizontal(ratio)
  /\ ~Includes(ToLowerCase(title), S_shorts)

\* The body of the loop of lines 182-222 for one record v of videos.list: the
\* records pushed to `videos` (none or one)
VideoEntry(v, c, publishedAfter) ==
  IF IsNone(v.publishedAt) THEN <<>>
  ELSE
    LET viewCount == NumberOr0(v.viewCount)
        publishedAt == Val(v.publishedAt)
        durationSec == parseISODuration(v.duration)
        title == OrEmpty(v.title)
        ratio == ratioOf(pickThumb(v.thumbnails))
    IN IF PerVideoPredicate(viewCount, publishedAt, durationSec, ratio, title, c, publishedAfter)
       THEN << [type |-> "video",
                videoId |-> v.id,
                title |-> title,
                channelId |-> v.channelId,
                publishedAt |-> publishedAt,
                viewCount |-> viewCount,
                durationSec |-> durationSec,
                aspectRatio |-> ratio,
                videoLang |-> normalizeLang(OrElse(v.defaultAudioLanguage, v.defaultLanguage))] >>
       ELSE <<>>

RECURSIVE VideoEntries(_, _, _)
VideoEntries(items, c, publishedAfter) ==
  IF items = <<>> THEN <<>>
  ELSE VideoEntry(Head(items), c, publishedAfter) \o VideoEntries(Tail(items), c, publishedAfter)

\* countryCode ? COUNTRY_TO_LANG[countryCode] || null : null
langHintOf(ch) ==
  LET country == OrElse(ch.brandingCountry, ch.snippetCountry)
  IN IF IsNone(country) THEN None
     ELSE LET countryCode == Str(ToUpperCase(Val(country)))
          IN IF countryCode \in DOMAIN COUNTRY_TO_LANG
             THEN Some(COUNTRY_TO_LANG[countryCode]) ELSE None

\* hidden ? null : Number(subscriberCount || 0)
subsOf(ch) ==
  IF ch.hiddenSubscriberCount THEN None ELSE Some(NumberOr0(ch.subscriberCount))

\* The entry of channelMeta for one record of channels.list (lines 241-248)
ChannelMetaEntry(ch) ==
  [subs |-> subsOf(ch), hidden |-> ch.hiddenSubscriberCount, langHint |-> langHintOf(ch)]

RECURSIVE ChannelMetaPut(_, _)
ChannelMetaPut(meta, items) ==
  IF items = <<>> THEN meta
  ELSE ChannelMetaPut((Head(items).id :> ChannelMetaEntry(Head(items))) @@ meta, Tail(items))

\* Array.from(new Set(videos.map(v => v.channelId))).filter(Boolean)
channelIdsOf(videos) ==
  LET present == SelectSeq(videos, LAMBDA v : ~IsNone(v.channelId))
  IN SetAddAll(<<>>, [k \in 1..Len(present) |-> Val(present[k].channelId)])

\* v.videoLang || ch.langHint || null
LanguageOf(v, ch) == IF ~IsNone(v.videoLang) THEN v.videoLang ELSE ch.langHint

\* The subscriber ceiling without its null check: null > maxSubs is false
PassesSubsNullPasses(ch, maxSubs) ==
  maxSubs > 0 => (IsNone(ch.subs) \/ Val(ch.subs) <= maxSubs)

\* The subscriber ceiling of lines 257-260
PassesSubs(ch, maxSubs) ==
  maxSubs > 0 => (~IsNone(ch.subs) /\ Val(ch.subs) <= maxSubs)

\* The filter callback of lines 254-264
KeepVideo(v, channelMeta, c) ==
  /\ ~IsNone(v.channelId)
  /\ Val(v.channelId) \in DOMAIN channelMeta
  /\ LET ch == channelMeta[Val(v.channelId)]
     IN /\ PassesSubs(ch, c.maxSubs)
        /\ ~IsNone(LanguageOf(v, ch))
        /\ Val(LanguageOf(v, ch)) \in c.allowedLangsSet

\* The map callback of lines 265-269
OutputItem(v, channelMeta) ==
  LET ch == channelMeta[Val(v.channelId)]
  IN [type |-> "video", videoId |-> v.videoId, title |-> v.title,
      channelId |-> v.channelId, publishedAt |-> v.publishedAt,
      viewCount |-> v.viewCount, durationSec |-> v.durationSec,
      aspectRatio |-> v.aspectRatio, videoLang |-> v.videoLang,
      subscriberCount |-> ch.subs,
      language |-> LanguageOf(v, ch)]

\* Array.prototype.sort (stable) with (a, b) => b.viewCount - a.viewCount
RECURSIVE InsertByViews(_, _)
InsertByViews(sorted, x) ==
  IF sorted = <<>> THEN <<x>>
  ELSE IF Head(sorted).viewCount >= x.viewCount
       THEN <<Head(sorted)>> \o InsertByViews(Tail(sorted), x)
       ELSE <<x>> \o sorted
RECURSIVE SortByViewsFrom(_, _)
SortByViewsFrom(sorted, rest) ==
  IF rest = <<>> THEN sorted
  ELSE SortByViewsFrom(InsertByViews(sorted, Head(rest)), Tail(rest))
\* No sort: the items in the order of enrichment
SortByViewsOmitted(seq) == seq
SortByViewsDesc(seq) == SortByViewsFrom(<<>>, seq)

\* videos.filter(..).map(..).sort(..) of lines 253-270
FilterMapSort(videos, channelMeta, c) ==
  LET kept == SelectSeq(videos, LAMBDA v : KeepVideo(v, channelMeta, c))
  IN SortByViewsDesc([k \in 1..Len(kept) |-> OutputItem(kept[k], channelMeta)])

-----------------------------------------------------------------------------
(* Requests and upstream datasets the model runs on                        *)

BaseRequest ==
  [method |-> "GET", hasKey |-> TRUE, q |-> Some(<<"a">>), mode |-> None,
   minViews |-> None, maxSubs |-> None, minDurationSec |-> None,
   days |-> None, pages |-> None, langs |-> None]

\* Requests that differ from the base request in one parameter
RequestVariants ==
  {[BaseRequest EXCEPT !.method = "OPTIONS"],
   [BaseRequest EXCEPT !.hasKey = FALSE],
   [BaseRequest EXCEPT !.q = None],
   [BaseRequest EXCEPT !.q = Some(<<" ">>)],
   [BaseRequest EXCEPT !.q = Some(<<" ", ",", " ">>)],
   [BaseRequest EXCEPT !.q = Some(<<"a", ",", " ", "b">>)],
   [BaseRequest EXCEPT !.q = Some(<<"a", ",", ",", "a">>)],
   [BaseRequest EXCEPT !.mode = Some(<<" ">> \o S_videos)],
   [BaseRequest EXCEPT !.q = Some(<<>>)],
   [BaseRequest EXCEPT !.q = None, !.method = "OPTIONS"],
   [BaseRequest EXCEPT !.q = None, !.hasKey = FALSE]}
  \cup {[BaseRequest EXCEPT !.minViews = Some(x)] :
          x \in {<<"0">>, <<"-","1">>, <<"2","5","0","0","0","0">>, <<"x">>}}
  \cup {[BaseRequest EXCEPT !.maxSubs = Some(x)] :
          x \in {<<"0">>, <<"-","1">>, <<"9","0","0","0","0">>, <<"5","k">>}}
  \cup {[BaseRequest EXCEPT !.minDurationSec = Some(x)] :
          x \in {<<"0">>, <<"-","1">>, <<"9","0","0">>}}
  \cup {[BaseRequest EXCEPT !.days = Some(x)] :
          x \in {<<"0">>, <<"-","5">>, <<"3">>, <<"4","0">>}}
  \cup {[BaseRequest EXCEPT !.pages = Some(x)] :
          x \in {<<"0">>, <<"2">>, <<"9">>, <<"-","3">>}}
  \cup {[BaseRequest EXCEPT !.langs = Some(x)] :
          x \in {<<"p","t">>, <<"E","N","-","u","s",",","z","h">>, <<",">>}}

BaseVideo(id, ch, nowT) ==
  [id |-> id, viewCount |-> Some(200000), publishedAt |-> Some(nowT - 5),
   duration |-> Some(D_10M), title |-> Some(T_plain),
   thumbnails |-> Some(OnlyThumb("maxres", Thumb(1280, 720))),
   defaultAudioLanguage |-> None, defaultLanguage |-> None,
   channelId |-> Some(ch)]

\* Records that differ from the base video in one field
VideoVariants(id, ch, nowT) ==
  LET b == BaseVideo(id, ch, nowT) IN
  {[b EXCEPT !.viewCount = x] : x \in {None, Some(99999), Some(100000), Some(700000)}}
  \cup {[b EXCEPT !.publishedAt = x] :
          x \in {None, Some(nowT - 30), Some(nowT - 31), Some(nowT - 2)}}
  \cup {[b EXCEPT !.duration = x] :
          x \in {None, Some(D_7M59S), Some(D_8M), Some(D_1H2M5S), Some(<<>>),
                 Some(DurationCode(Components(None, None, None))),
                 Some(DurationCode(Components(Some(1), None, None))),
                 Some(DurationCode(Components(None, None, Some(5)))),
                 Some(DurationCode(Components(Some(1), None, Some(5)))),
                 Some(DurationCode(Components(Some(1), Some(2), None))),
                 Some(DurationCode(Components(Some(0), Some(8), None)))}}
  \cup {[b EXCEPT !.title = x] : x \in {None, Some(T_shorts), Some(T_noHash)}}
  \cup {[b EXCEPT !.thumbnails = x] :
          x \in {None, Some(NoThumbs),
                 Some(OnlyThumb("default", Thumb(120, 90))),
                 Some(OnlyThumb("high", Thumb(120, 100))),
                 Some(OnlyThumb("high", Thumb(119, 100))),
                 Some([OnlyThumb("default", Thumb(120, 90))
                         EXCEPT !["maxres"] = Some(Thumb(720, 1280))]),
                 Some(OnlyThumb("medium", [width |-> Some(320), height |-> None]))}}
  \cup {[b EXCEPT !.defaultAudioLanguage = Some(x)] :
          x \in {<<"p","t","-","B","R">>, <<"z","h">>, <<>>,
                 <<"E","N","-","u","s">>, <<"-","x">>}}
  \cup {[b EXCEPT !.defaultLanguage = Some(<<"E","S">>)],
        [b EXCEPT !.defaultAudioLanguage = Some(<<"z","h">>),
                  !.defaultLanguage = Some(<<"e","n">>)],
        [b EXCEPT !.channelId = None]}

BaseChannel(id) ==
  [id |-> id, hiddenSubscriberCount |-> FALSE, subscriberCount |-> Some(10000),
   brandingCountry |-> Some(<<"U","S">>), snippetCountry |-> None,
   uploads |-> Some(id)]

\* Records that differ from the base channel in one field
ChannelVariants(id) ==
  LET b == BaseChannel(id) IN
  {[b EXCEPT !.subscriberCount = x] :
     x \in {None, Some(0), Some(50000), Some(60000), Some(150000), Some(150001)}}
  \cup {[b EXCEPT !.hiddenSubscriberCount = TRUE],
        [b EXCEPT !.hiddenSubscriberCount = TRUE, !.subscriberCount = None]}
  \cup {[b EXCEPT !.brandingCountry = x] :
          x \in {None, Some(<<"b","r">>), Some(<<"C","N">>)}}
  \cup {[b EXCEPT !.brandingCountry = None, !.snippetCountry = Some(<<"J","P">>)],
        [b EXCEPT !.uploads = None]}

\* The search pages of a dataset: every term is answered alike
OnePage(ids) == << [items |-> [k \in 1..Len(ids) |-> Some(ids[k])], more |-> FALSE] >>
TwoPages(ids) ==
  << [items |-> <<Some(ids[1]), None>>, more |-> TRUE],
     [items |-> [k \in 1..(Len(ids) - 1) |-> Some(ids[k + 1])], more |-> FALSE] >>
\* An upstream that returns a continuation token on every page
TokenOnEveryPage(ids) ==
  << [items |-> <<Some(ids[1]), None>>, more |-> TRUE],
     [items |-> [k \in 1..(Len(ids) - 1) |-> Some(ids[k + 1])], more |-> TRUE],
     [items |-> <<Some(ids[1])>>, more |-> TRUE] >>
SearchShapes(ids) ==
  {[medium |-> OnePage(ids), long |-> OnePage(ids), any |-> OnePage(ids)],
   [medium |-> TwoPages(ids), long |-> <<>>, any |-> TwoPages(ids)],
   [medium |-> TokenOnEveryPage(ids), long |-> <<>>, any |-> TokenOnEveryPage(ids)],
   [medium |-> <<>>, long |-> <<>>, any |-> <<>>]}

IdSeq(n) == [k \in 1..n |-> k]
NoUploads == [c \in {} |-> <<>>]

\* Datasets of the videos mode: video 1 and channel 1 vary, the other videos
\* are absent or base videos with other view counts, on channel 1 or 2
ExtraKinds == {"none", "hot", "other", "top"}
ExtraVideo(kind, id, nowT) ==
  CASE kind = "none" -> None
    [] kind = "hot" -> Some([BaseVideo(id, 1, nowT) EXCEPT !.viewCount = Some(600000 + id)])
    [] kind = "other" -> Some([BaseVideo(id, 2, nowT) EXCEPT !.viewCount = Some(150000)])
    [] kind = "top" -> Some([BaseVideo(id, 2, nowT) EXCEPT !.viewCount = Some(800000 + id)])

\* What the upstream holds beside video 1 and channel 1: the search pages and
\* the kinds of the other videos
Environments ==
  {[search |-> sh, extra |-> e] :
     sh \in SearchShapes(IdSeq(1 + MaxExtraVideos)),
     e \in [2..(1 + MaxExtraVideos) -> ExtraKinds]}
BaseEnvironment ==
  [search |-> [medium |-> OnePage(IdSeq(1 + MaxExtraVideos)),
               long |-> OnePage(IdSeq(1 + MaxExtraVideos)),
               any |-> OnePage(IdSeq(1 + MaxExtraVideos))],
   extra |-> [id \in 2..(1 + MaxExtraVideos) |-> "hot"]]

ChannelCatalogue(c1) ==
  (1 :> c1) @@
  (2 :> Some([BaseChannel(2) EXCEPT !.subscriberCount = Some(20000),
                                    !.brandingCountry = Some(<<"B","R">>)]))

Dataset(env, v1, c1, nowT) ==
  [search |-> env.search,
   videos |-> [id \in 1..(1 + MaxExtraVideos) |->
                 IF id = 1 THEN v1 ELSE ExtraVideo(env.extra[id], id, nowT)],
   channels |-> ChannelCatalogue(c1),
   uploads |-> NoUploads, stats |-> NoUploads]

Scenarios(reqs, v1s, c1s, envs, nowT) ==
  {[req |-> r, up |-> Dataset(env, v1, c1, nowT)] :
     r \in reqs, v1 \in v1s, c1 \in c1s, env \in envs}

\* At most two of request, first video, first channel and environment leave
\* their base value
PairwiseScenarios(reqs, r0, v1s, v0, c1s, c0, nowT) ==
  LET e0 == BaseEnvironment IN
  Scenarios(reqs, v1s, {c0}, {e0}, nowT) \cup Scenarios(reqs, {v0}, c1s, {e0}, nowT)
    \cup Scenarios({r0}, v1s, c1s, {e0}, nowT)
    \cup Scenarios(reqs, {v0}, {c0}, Environments, nowT)
    \cup Scenarios({r0}, v1s, {c0}, Environments, nowT)
    \cup Scenarios({r0}, {v0}, c1s, Environments, nowT)

VideosScenarios(nowT) ==
  LET v0 == Some(BaseVideo(1, 1, nowT))
      c0 == Some(BaseChannel(1))
  IN PairwiseScenarios({BaseRequest} \cup RequestVariants, BaseRequest,
                       {None, v0} \cup {Some(v) : v \in VideoVariants(1, 1, nowT)}, v0,
                       {None, c0} \cup {Some(c) : c \in ChannelVariants(1)}, c0, nowT)

\* Datasets of more identifiers than one batch holds: n videos, each of a
\* channel of its own, found on two pages of the first bucket and in part
\* again in the second
BatchRequest == [BaseRequest EXCEPT !.pages = Some(<<"2">>)]
BatchDataset(n, nowT) ==
  [search |-> [medium |-> << [items |-> [k \in 1..BATCH_SIZE |-> Some(k)], more |-> TRUE],
                             [items |-> [k \in 1..(n - BATCH_SIZE) |-> Some(BATCH_SIZE + k)],
                              more |-> FALSE] >>,
               long |-> << [items |-> [k \in 1..(BATCH_SIZE \div 2) |-> Some(2 * k)],
                            more |-> FALSE] >>,
               any |-> <<>>],
   videos |-> [id \in 1..n |-> Some(BaseVideo(id, id, nowT))],
   channels |-> [ch \in 1..n |-> Some(BaseChannel(ch))],
   uploads |-> NoUploads, stats |-> NoUploads]
BatchScenarios(nowT) ==
  {[req |-> BatchRequest, up |-> BatchDataset(n, nowT)] :
     n \in BATCH_SIZE..(BATCH_SIZE + MaxOverBatch)}

\* Scenarios of the subnicho mode
SubnichoRequest == [BaseRequest EXCEPT !.mode = Some(S_subnicho)]
SubnichoScenarios(nowT) ==
  LET b == [BaseVideo(1, 1, nowT) EXCEPT !.viewCount = Some(700000)]
      c0 == Some(BaseChannel(1))
      reqs == {SubnichoRequest,
               [SubnichoRequest EXCEPT !.langs = Some(<<"p","t">>)],
               [SubnichoRequest EXCEPT !.pages = Some(<<"2">>)],
               [SubnichoRequest EXCEPT !.q = Some(<<"a", ",", "b">>)],
               [SubnichoRequest EXCEPT !.q = None],
               [SubnichoRequest EXCEPT !.q = Some(<<" ", " ">>)],
               [SubnichoRequest EXCEPT !.q = Some(<<",", " ", ",">>)]}
      v1s == {None, Some(b), Some([b EXCEPT !.channelId = None])}
               \cup {Some([b EXCEPT !.viewCount = x]) :
                       x \in {None, Some(499999), Some(500000), Some(900000)}}
               \cup {Some([b EXCEPT !.publishedAt = x]) :
                       x \in {None, Some(nowT - 60), Some(nowT - 61)}}
  IN PairwiseScenarios(reqs, SubnichoRequest, v1s, Some(b),
                       {None, c0} \cup {Some(c) : c \in ChannelVariants(1)}, c0, nowT)

\* Upload histories of the rec_channels mode.  Upload j of channel ch is the
\* j-th most recent one: the first n lie in the window, one a day, the `old`
\* ones behind them lie outside it.  The upstream lists the newest first,
\* perPage entries a page.
UploadId(ch, j) == <<ch, j>>
UploadEntry(h, ch, j, nowT) ==
  [videoId |-> IF j = h.noIdAt THEN None ELSE Some(UploadId(ch, j)),
   videoPublishedAt |-> IF j = h.snippetDateAt THEN None
                        ELSE Some(IF j <= h.n THEN nowT - j ELSE nowT - STREAK_WINDOW_DAYS - (j - h.n)),
   snippetPublishedAt |-> IF j = h.snippetDateAt THEN Some(nowT - j) ELSE None]
UploadPages(h, ch, nowT) ==
  LET total == h.n + h.old
      count == (total + h.perPage - 1) \div h.perPage
  IN [p \in 1..count |->
        [items |-> [k \in 1..Min(h.perPage, total - (p - 1) * h.perPage) |->
                      UploadEntry(h, ch, (p - 1) * h.perPage + k, nowT)],
         more |-> p < count \/ h.endless]]
\* The video record of upload j: the one at h.shortAt is too short, vertical or
\* marked as a Short, as h.shortKind says
UploadStats(h, ch, j) ==
  IF j = h.missingAt THEN None
  ELSE LET is(kind) == j = h.shortAt /\ h.shortKind = kind IN
       Some([id |-> UploadId(ch, j),
             viewCount |-> IF j = h.noCountAt THEN None
                           ELSE Some(IF j = h.lowAt THEN STREAK_MIN_VIEWS - 1
                                     ELSE STREAK_MIN_VIEWS + 5000),
             duration |-> Some(IF is("duration") THEN D_30S ELSE D_10M),
             title |-> Some(IF is("marker") THEN T_shorts ELSE T_plain),
             thumbnails |-> Some(OnlyThumb("maxres", IF is("vertical") THEN Thumb(720, 1280)
                                                     ELSE Thumb(1280, 720)))])

GoodHistory(n) ==
  [n |-> n, old |-> 0, perPage |-> BATCH_SIZE, lowAt |-> 0, missingAt |-> 0,
   noCountAt |-> 0, noIdAt |-> 0, snippetDateAt |-> 0, shortAt |-> 0, shortKind |-> "",
   endless |-> FALSE]
BaseHistory == GoodHistory(STREAK_COUNT)
HistoryLengths == STREAK_COUNT..(STREAK_COUNT + MaxExtraUploads)
HistoryVariants ==
  {GoodHistory(n) : n \in {0, STREAK_COUNT - 1} \cup HistoryLengths}
  \cup {[GoodHistory(n) EXCEPT !.perPage = 7, !.old = o] : n \in HistoryLengths, o \in {0, 10}}
  \cup {[GoodHistory(STREAK_COUNT - 4) EXCEPT !.perPage = 5, !.old = 12]}
  \cup {[GoodHistory(n) EXCEPT !.lowAt = j] :
          n \in HistoryLengths, j \in {1, 10, STREAK_COUNT, STREAK_COUNT + 1}}
  \cup {[GoodHistory(n) EXCEPT !.missingAt = j] : n \in HistoryLengths, j \in {1, 10}}
  \cup {[GoodHistory(n) EXCEPT !.noCountAt = 3] : n \in HistoryLengths}
  \cup {[GoodHistory(n) EXCEPT !.noIdAt = 2] : n \in HistoryLengths}
  \cup {[GoodHistory(n) EXCEPT !.snippetDateAt = 2] : n \in HistoryLengths}
  \cup {[GoodHistory(n) EXCEPT !.endless = TRUE] : n \in {STREAK_COUNT - 4} \cup HistoryLengths}
  \cup {[GoodHistory(n) EXCEPT !.shortAt = 5, !.shortKind = kind] :
          n \in HistoryLengths, kind \in {"duration", "vertical", "marker"}}

\* nV discovery videos spread over nCh channels (in reverse when rev), channel
\* 1 being c1 with upload history h1, the others base channels on a streak
RecDataset(nCh, nV, rev, c1, h1, nowT) ==
  LET chanOf(k) == IF rev THEN nCh - ((k - 1) % nCh) ELSE ((k - 1) % nCh) + 1
      hist(ch) == IF ch = 1 THEN h1 ELSE BaseHistory
  IN [search |-> [medium |-> <<>>, long |-> <<>>, any |-> OnePage(IdSeq(nV))],
      videos |-> [k \in 1..nV |-> Some(BaseVideo(k, chanOf(k), nowT))],
      channels |-> [ch \in 1..nCh |-> IF ch = 1 THEN c1 ELSE Some(BaseChannel(ch))],
      uploads |-> [ch \in 1..nCh |-> UploadPages(hist(ch), ch, nowT)],
      stats |-> [id \in UNION {{UploadId(ch, j) : j \in 1..(hist(ch).n + hist(ch).old)} :
                                 ch \in 1..nCh}
                   |-> UploadStats(hist(id[1]), id[1], id[2])]]

RecRequest == [BaseRequest EXCEPT !.mode = Some(S_rec_channels)]
RecScenarios(nowT) ==
  LET c0 == Some(BaseChannel(1))
      reqs == {RecRequest,
               [RecRequest EXCEPT !.langs = Some(<<"p","t">>)],
               [RecRequest EXCEPT !.pages = Some(<<"2">>)],
               [RecRequest EXCEPT !.q = None],
               [RecRequest EXCEPT !.q = Some(<<" ">>)],
               [RecRequest EXCEPT !.q = Some(<<",">>)]}
      c1s == {None, c0} \cup {Some(c) : c \in ChannelVariants(1)}
      hs == {BaseHistory} \cup HistoryVariants
      big == MAX_CHANNEL_CANDIDATES..(MAX_CHANNEL_CANDIDATES + MaxOverCap)
  IN {[req |-> r, up |-> RecDataset(2, 3, FALSE, c0, BaseHistory, nowT)] : r \in reqs}
     \cup {[req |-> RecRequest, up |-> RecDataset(2, 3, FALSE, c1, h1, nowT)] :
             c1 \in c1s, h1 \in hs}
     \cup {[req |-> RecRequest, up |-> RecDataset(nCh, nCh + 1, rev, c0, BaseHistory, nowT)] :
             nCh \in big, rev \in BOOLEAN}

-----------------------------------------------------------------------------
(* The handler as a state machine                                          *)

VARIABLES
  req,        \* the parameter bag of the request
  up,         \* the upstream dataset
  now,        \* Date.now() of the request
  pc,         \* where the handler stands: "start", a stage, or "done"
  cfg,        \* the resolved parameters (lines 134-153)
  loc,        \* the handler's local variables
  response,   \* None until the handler has answered, then Some(response)
  calls,      \* the upstream calls issued so far, in order
  slept       \* whether a sleep(60) has elapsed since the last upstream call

vars == <<req, up, now, pc, cfg, loc, response, calls, slept>>

EmptyMap == [x \in {} |-> x]

InitialLocals ==
  [publishedAfter |-> 0,
   ti |-> 1, di |-> 1, page |-> 0, pageToken |-> 0, ids |-> <<>>,
   i |-> 0, videos |-> <<>>, channelIds |-> <<>>, channelMeta |-> EmptyMap,
   candidateByChannel |-> <<>>, items |-> <<>>,
   channelSet |-> <<>>, candidateChannels |-> <<>>, qualified |-> <<>>,
   chItems |-> <<>>, ci |-> 1, videoIdsForCheck |-> <<>>, streak |-> <<>>]

\* res.status(status).json({ error, details })
ErrorResponse(status, error, details) ==
  [status |-> status, items |-> None, error |-> Some(error), details |-> details,
   cache |-> None]

\* res.setHeader('Cache-Control', 's-maxage=<ttl>, ..'); res.json({ items, meta })
ItemsResponse(items, ttl) ==
  [status |-> 200, items |-> Some(items), error |-> None, details |-> None,
   cache |-> Some(ttl)]

EmptyResponse == ItemsResponse(<<>>, 600)

\* The catch of collectVideoIds*'s throw (lines 163-165, 284-286, 380-382):
\* String(err) carries the upstream status and body
CollectFailure(status) ==
  ErrorResponse(500, "Falha coletando IDs",
                Some(<<"Error: search.list", status, UpstreamBody(status)>>))

\* if (!r.ok) return res.status(r.status).json({ error, details: await r.text() })
UpstreamFailure(status, error) ==
  ErrorResponse(status, error, Some(UpstreamBody(status)))

\* What a step of the handler leaves behind
Outcome(nextPc, l, resp, didSleep) ==
  [pc |-> nextPc, loc |-> l, response |-> resp, slept |-> didSleep]
Answer(l, resp, didSleep) == Outcome("done", l, Some(resp), didSleep)

Apply(o) ==
  /\ pc' = o.pc
  /\ loc' = o.loc
  /\ response' = o.response
  /\ slept' = o.slept

Statuses == {200} \cup FailStatuses

\* The rest of the array from i on, whatever its length
SliceUncapped(xs, i) == SubSeq(xs, i + 1, Len(xs))

\* batch = xs.slice(i, i + 50)
Slice(xs, i) == SubSeq(xs, i + 1, Min(i + BATCH_SIZE, Len(xs)))

-----------------------------------------------------------------------------
(* Candidate discovery (collectVideoIdsWithDurations, collectVideoIdsAny)  *)

\* After the loops of collectVideoIds*: the empty answer, or the next stage
AfterCollect(l, nextPc, didSleep) ==
  IF l.ids = <<>> THEN Answer(l, EmptyResponse, didSleep)
  ELSE Outcome(nextPc, [l EXCEPT !.i = 0], None, didSleep)

\* for (const it of data.items) if (it?.id?.videoId) ids.add(it.id.videoId)
AddIds(ids, items) ==
  LET have == SelectSeq(items, LAMBDA it : ~IsNone(it))
  IN SetAddAll(ids, [k \in 1..Len(have) |-> Val(have[k])])

\* One iteration of the page loop: the call for (term ti, duration di, page)
\* answered with `status`, and the loop bookkeeping up to the next call, which
\* is made at `here` again or, the loops left, at `nextPc`
CollectStep(l, u, c, durs, pages, here, nextPc, status) ==
  IF status # 200 THEN Answer(l, CollectFailure(status), FALSE)
  ELSE
    LET data == SearchResponse(u, durs[l.di], l.pageToken)
        got == [l EXCEPT !.ids = AddIds(l.ids, data.items)]
        token == data.nextPageToken
        didSleep == token # 0
    IN IF token # 0 /\ l.page + 1 < pages
       THEN Outcome(here, [got EXCEPT !.page = l.page + 1, !.pageToken = token],
                    None, didSleep)
       ELSE IF l.di < Len(durs)
       THEN Outcome(here, [got EXCEPT !.di = l.di + 1, !.page = 0, !.pageToken = 0],
                    None, didSleep)
       ELSE IF l.ti < Len(c.terms)
       THEN Outcome(here, [got EXCEPT !.ti = l.ti + 1, !.di = 1, !.page = 0,
                                    !.pageToken = 0], None, didSleep)
       ELSE AfterCollect(got, nextPc, didSleep)

SearchCall(l, c, durs, status) ==
  [api |-> "search", term |-> c.terms[l.ti], duration |-> durs[l.di],
   pageToken |-> l.pageToken, ids |-> <<>>, channel |-> None, status |-> status,
   paced |-> slept]

collectVideoIdsWithDurations ==
  /\ pc = "collectWithDurations"
  /\ \E status \in Statuses :
       /\ calls' = Append(calls, SearchCall(loc, cfg, DURATIONS, status))
       /\ Apply(CollectStep(loc, up, cfg, DURATIONS, cfg.pages, pc, "videos.videos", status))
  /\ UNCHANGED <<req, up, now, cfg>>

-----------------------------------------------------------------------------
(* Videos mode (lines 156-274)                                             *)

\* Lines 253-273 when at least one video passed the per-video predicate
VideosFinal(l, c, didSleep) ==
  Answer(l, ItemsResponse(FilterMapSort(l.videos, l.channelMeta, c), 3600), didSleep)

\* After the loop over the video batches (lines 225-232)
AfterVideoBatches(l, c) ==
  IF l.videos = <<>> THEN Answer(l, EmptyResponse, TRUE)
  ELSE LET l2 == [l EXCEPT !.channelIds = channelIdsOf(l.videos), !.i = 0,
                           !.channelMeta = EmptyMap]
       IN IF l2.channelIds = <<>> THEN VideosFinal(l2, c, TRUE)
          ELSE Outcome("videos.channels", l2, None, TRUE)

\* One iteration of the loop of lines 173-224
VideosListStep(l, u, c, status) ==
  IF status # 200 THEN Answer(l, UpstreamFailure(status, "Erro videos.list"), FALSE)
  ELSE
    LET data == VideosResponse(u, Slice(l.ids, l.i))
        l2 == [l EXCEPT !.videos = l.videos \o VideoEntries(data.items, c, l.publishedAfter),
                        !.i = l.i + BATCH_SIZE]
    IN IF l2.i < Len(l.ids) THEN Outcome("videos.videos", l2, None, TRUE)
       ELSE AfterVideoBatches(l2, c)

\* The body of the loop of lines 233-250 once channels.list has answered
ChannelsListOk(l, u, c) ==
  LET data == ChannelsResponse(u, Slice(l.channelIds, l.i))
      l2 == [l EXCEPT !.channelMeta = ChannelMetaPut(l.channelMeta, data.items),
                      !.i = l.i + BATCH_SIZE]
  IN IF l2.i < Len(l.channelIds) THEN Outcome("videos.channels", l2, None, TRUE)
     ELSE VideosFinal(l2, c, TRUE)

\* The loop answering with the videos gathered so far when channels.list fails
ChannelsListStepDegrading(l, u, c, status) ==
  IF status # 200 THEN VideosFinal(l, c, FALSE) ELSE ChannelsListOk(l, u, c)

\* One iteration of the loop of lines 233-250
ChannelsListStep(l, u, c, status) ==
  IF status # 200 THEN Answer(l, UpstreamFailure(status, "Erro channels.list"), FALSE)
  ELSE ChannelsListOk(l, u, c)

ListCall(api, batch, status) ==
  [api |-> api, term |-> <<>>, duration |-> "", pageToken |-> 0, ids |-> batch,
   channel |-> None, status |-> status, paced |-> slept]

VideosList ==
  /\ pc = "videos.videos"
  /\ \E status \in Statuses :
       /\ calls' = Append(calls, ListCall("videos", Slice(loc.ids, loc.i), status))
       /\ Apply(VideosListStep(loc, up, cfg, status))
  /\ UNCHANGED <<req, up, now, cfg>>

ChannelsList ==
  /\ pc = "videos.channels"
  /\ \E status \in Statuses :
       /\ calls' = Append(calls, ListCall("channels", Slice(loc.channelIds, loc.i), status))
       /\ Apply(ChannelsListStep(loc, up, cfg, status))
  /\ UNCHANGED <<req, up, now, cfg>>

-----------------------------------------------------------------------------
(* Subnicho mode (lines 277-370)                                           *)

collectVideoIdsAny ==
  /\ pc \in {"subnicho.collect", "rec.collect"}
  /\ \E status \in Statuses :
       /\ calls' = Append(calls, SearchCall(loc, cfg, <<"any">>, status))
       /\ Apply(CollectStep(loc, up, cfg, <<"any">>,
                            IF pc = "rec.collect" THEN 1 ELSE cfg.pages, pc,
                            IF pc = "rec.collect" THEN "rec.videos" ELSE "subnicho.videos",
                            status))
  /\ UNCHANGED <<req, up, now, cfg>>

\* A JavaScript Map in insertion order, as a sequence of [key, value] entries
MapHas(m, k) == \E n \in 1..Len(m) : m[n].key = k
MapGet(m, k) == m[CHOOSE n \in 1..Len(m) : m[n].key = k].value
MapSet(m, k, v) ==
  IF MapHas(m, k)
  THEN [n \in 1..Len(m) |-> IF m[n].key = k THEN [key |-> k, value |-> v] ELSE m[n]]
  ELSE Append(m, [key |-> k, value |-> v])
MapKeys(m) == [n \in 1..Len(m) |-> m[n].key]

\* The loop of lines 301-318 over the records of one videos.list answer
RECURSIVE BestPerChannel(_, _, _)
BestPerChannel(m, items, publishedAfter) ==
  IF items = <<>> THEN m
  ELSE
    LET v == Head(items)
        vc == NumberOr0(v.viewCount)
        hit == /\ ~IsNone(v.publishedAt)
               /\ vc >= SUBNICHO_MIN_VIEWS
               /\ isRecent(Val(v.publishedAt), publishedAfter)
               /\ (MapHas(m, v.channelId) => vc > MapGet(m, v.channelId).viewCount)
    IN BestPerChannel(
         IF hit THEN MapSet(m, v.channelId,
                            [videoId |-> v.id, viewCount |-> vc,
                             publishedAt |-> Val(v.publishedAt), title |-> OrEmpty(v.title)])
         ELSE m,
         Tail(items), publishedAfter)

\* channels.list for a batch of Map keys, the undefined key among them
KeysBatch(keys) ==
  LET have == SelectSeq(keys, LAMBDA k : ~IsNone(k))
  IN [n \in 1..Len(have) |-> Val(have[n])]

\* After the loop over the video batches (lines 322-329)
AfterSubnichoVideos(l) ==
  LET l2 == [l EXCEPT !.channelIds = MapKeys(l.candidateByChannel), !.i = 0,
                      !.items = <<>>]
  IN IF l2.channelIds = <<>> THEN Answer(l2, EmptyResponse, TRUE)
     ELSE Outcome("subnicho.channels", l2, None, TRUE)

\* One iteration of the loop of lines 294-320
SubnichoVideosStep(l, u, status) ==
  IF status # 200 THEN Answer(l, UpstreamFailure(status, "Erro videos.list"), FALSE)
  ELSE
    LET data == VideosResponse(u, Slice(l.ids, l.i))
        l2 == [l EXCEPT !.candidateByChannel =
                           BestPerChannel(l.candidateByChannel, data.items, l.publishedAfter),
                        !.i = l.i + BATCH_SIZE]
    IN IF l2.i < Len(l.ids) THEN Outcome("subnicho.videos", l2, None, TRUE)
       ELSE AfterSubnichoVideos(l2)

\* The loop of lines 339-363 over the records of one channels.list answer
RECURSIVE SubnichoItems(_, _, _)
SubnichoItems(chs, m, c) ==
  IF chs = <<>> THEN <<>>
  ELSE
    LET ch == Head(chs)
        lang == langHintOf(ch)
    IN (IF IsNone(lang) \/ Val(lang) \notin c.allowedLangsSet THEN <<>>
        ELSE << [type |-> "channel", channelId |-> ch.id,
                 subscriberCount |-> subsOf(ch), language |-> lang,
                 viewCount |-> IF MapHas(m, Some(ch.id))
                               THEN Some(MapGet(m, Some(ch.id)).viewCount) ELSE None,
                 publishedAt |-> IF MapHas(m, Some(ch.id))
                                 THEN Some(MapGet(m, Some(ch.id)).publishedAt) ELSE None] >>)
       \o SubnichoItems(Tail(chs), m, c)

\* items.sort((a, b) => (b.viewCount || 0) - (a.viewCount || 0)), stable
RECURSIVE InsertByViewsOr0(_, _)
InsertByViewsOr0(sorted, x) ==
  IF sorted = <<>> THEN <<x>>
  ELSE IF NumberOr0(Head(sorted).viewCount) >= NumberOr0(x.viewCount)
       THEN <<Head(sorted)>> \o InsertByViewsOr0(Tail(sorted), x)
       ELSE <<x>> \o sorted
RECURSIVE SortByViewsOr0From(_, _)
SortByViewsOr0From(sorted, rest) ==
  IF rest = <<>> THEN sorted
  ELSE SortByViewsOr0From(InsertByViewsOr0(sorted, Head(rest)), Tail(rest))
SortByViewsOr0Desc(seq) == SortByViewsOr0From(<<>>, seq)

\* Lines 367-369
SubnichoFinal(l) ==
  Answer(l, ItemsResponse(SortByViewsOr0Desc(l.items), 1800), TRUE)

\* One iteration of the loop of lines 330-365
SubnichoChannelsStep(l, u, c, status) ==
  IF status # 200 THEN Answer(l, UpstreamFailure(status, "Erro channels.list"), FALSE)
  ELSE
    LET data == ChannelsResponse(u, KeysBatch(Slice(l.channelIds, l.i)))
        l2 == [l EXCEPT !.items = l.items \o SubnichoItems(data.items, l.candidateByChannel, c),
                        !.i = l.i + BATCH_SIZE]
    IN IF l2.i < Len(l.channelIds) THEN Outcome("subnicho.channels", l2, None, TRUE)
       ELSE SubnichoFinal(l2)

SubnichoVideosList ==
  /\ pc = "subnicho.videos"
  /\ \E status \in Statuses :
       /\ calls' = Append(calls, ListCall("videos", Slice(loc.ids, loc.i), status))
       /\ Apply(SubnichoVideosStep(loc, up, status))
  /\ UNCHANGED <<req, up, now, cfg>>

SubnichoChannelsList ==
  /\ pc = "subnicho.channels"
  /\ \E status \in Statuses :
       /\ calls' = Append(calls, ListCall("channels", KeysBatch(Slice(loc.channelIds, loc.i)), status))
       /\ Apply(SubnichoChannelsStep(loc, up, cfg, status))
  /\ UNCHANGED <<req, up, now, cfg>>

-----------------------------------------------------------------------------
(* Rec_channels mode (lines 373-491)                                       *)

\* playlistItems.list: the page of the uploads playlist the token names.  An
\* upstream whose last page carries a token goes on answering with empty pages
\* and further tokens.
PlaylistResponse(u, uploadsId, pageToken) ==
  LET pages == u.uploads[uploadsId]
      n == IF pageToken = 0 THEN 1 ELSE pageToken
  IN IF n > Len(pages)
     THEN [items |-> <<>>,
           nextPageToken |-> IF pages # <<>> /\ pages[Len(pages)].more THEN n + 1 ELSE 0]
     ELSE [items |-> pages[n].items,
           nextPageToken |-> IF pages[n].more THEN n + 1 ELSE 0]

\* videos.list with part=statistics for the uploads of a streak: of each record
\* the upstream holds, the identifier and the statistics
StatsResponse(u, ids) ==
  LET have == SelectSeq(ids, LAMBDA id : ~IsNone(u.stats[id]))
  IN [items |-> [k \in 1..Len(have) |->
                   [id |-> Val(u.stats[have[k]]).id,
                    viewCount |-> Val(u.stats[have[k]]).viewCount]]]

\* The loop of lines 396-404 over the records of one videos.list answer
RECURSIVE AddChannels(_, _, _)
AddChannels(channelSet, items, publishedAfter) ==
  IF items = <<>> THEN channelSet
  ELSE
    LET v == Head(items)
        hit == /\ ~IsNone(v.publishedAt)
               /\ NumberOr0(v.viewCount) >= STREAK_MIN_VIEWS
               /\ isRecent(Val(v.publishedAt), publishedAfter)
               /\ ~IsNone(v.channelId)
    IN AddChannels(IF hit THEN SetAdd(channelSet, Val(v.channelId)) ELSE channelSet,
                   Tail(items), publishedAfter)

\* Array.from(channelSet) without the slice
candidateChannelsUncapped(channelSet) == channelSet

\* Array.from(channelSet).slice(0, MAX_CHANNEL_CANDIDATES)
candidateChannelsOf(channelSet) ==
  SubSeq(channelSet, 1, Min(MAX_CHANNEL_CANDIDATES, Len(channelSet)))

\* After the loop over the video batches (lines 408-415)
AfterRecVideos(l) ==
  LET l2 == [l EXCEPT !.candidateChannels = candidateChannelsOf(l.channelSet),
                      !.i = 0, !.qualified = <<>>]
  IN IF l2.candidateChannels = <<>> THEN Answer(l2, EmptyResponse, TRUE)
     ELSE Outcome("rec.channels", l2, None, TRUE)

\* One iteration of the loop of lines 390-406
RecVideosStep(l, u, status) ==
  IF status # 200 THEN Answer(l, UpstreamFailure(status, "Erro videos.list"), FALSE)
  ELSE
    LET data == VideosResponse(u, Slice(l.ids, l.i))
        l2 == [l EXCEPT !.channelSet = AddChannels(l.channelSet, data.items, l.publishedAfter),
                        !.i = l.i + BATCH_SIZE]
    IN IF l2.i < Len(l.ids) THEN Outcome("rec.videos", l2, None, TRUE)
       ELSE AfterRecVideos(l2)

\* The checks without the subscriber ceiling
RecChannelPassesNoCeiling(ch, c) ==
  /\ ~IsNone(subsOf(ch))
  /\ ~IsNone(langHintOf(ch))
  /\ Val(langHintOf(ch)) \in c.allowedLangsSet
  /\ ~IsNone(ch.uploads)

\* The checks of lines 426-435 that let a channel reach its upload history
RecChannelPasses(ch, c) ==
  /\ ~IsNone(subsOf(ch))
  /\ Val(subsOf(ch)) <= STREAK_MAX_SUBS
  /\ ~IsNone(langHintOf(ch))
  /\ Val(langHintOf(ch)) \in c.allowedLangsSet
  /\ ~IsNone(ch.uploads)

\* The response after the last batch of channels: { items: qualified, .. }
RecFinal(l, didSleep) ==
  Answer(l, [status |-> 200, items |-> Some(l.qualified), error |-> None,
             details |-> None, cache |-> None], didSleep)

\* The for-of loop of line 425 from channel ci on, up to the next upstream
\* call: the channels failing the checks are passed over
RECURSIVE NextChannel(_, _, _)
NextChannel(l, c, didSleep) ==
  IF l.ci > Len(l.chItems)
  THEN IF l.i + BATCH_SIZE < Len(l.candidateChannels)
       THEN Outcome("rec.channels", [l EXCEPT !.i = l.i + BATCH_SIZE], None, TRUE)
       ELSE RecFinal(l, TRUE)
  ELSE IF RecChannelPasses(l.chItems[l.ci], c)
  THEN Outcome("rec.playlist",
               [l EXCEPT !.videoIdsForCheck = <<>>, !.pageToken = 0, !.streak = <<>>],
               None, didSleep)
  ELSE NextChannel([l EXCEPT !.ci = l.ci + 1], c, didSleep)

\* Lines 416-424: one channels.list call, then the loop over its records
RecChannelsStep(l, u, c, status) ==
  IF status # 200 THEN Answer(l, UpstreamFailure(status, "Erro channels.list"), FALSE)
  ELSE
    LET data == ChannelsResponse(u, Slice(l.candidateChannels, l.i))
    IN NextChannel([l EXCEPT !.chItems = data.items, !.ci = 1], c, FALSE)

\* The loop of lines 449-455 over the entries of one playlistItems.list answer
RECURSIVE AddUploads(_, _, _)
AddUploads(check, items, publishedAfter) ==
  IF items = <<>> THEN check
  ELSE
    LET it == Head(items)
        publishedAt == IF ~IsNone(it.videoPublishedAt) THEN it.videoPublishedAt
                       ELSE it.snippetPublishedAt
        withinWindow == /\ ~IsNone(it.videoId) /\ ~IsNone(publishedAt)
                        /\ isRecent(Val(publishedAt), publishedAfter)
    IN AddUploads(IF withinWindow
                  THEN Append(check, [vId |-> Val(it.videoId), publishedAt |-> Val(publishedAt)])
                  ELSE check,
                  Tail(items), publishedAfter)

\* videoIdsForCheck.sort((a, b) => new Date(b.publishedAt) - new Date(a.publishedAt))
RECURSIVE InsertByDate(_, _)
InsertByDate(sorted, x) ==
  IF sorted = <<>> THEN <<x>>
  ELSE IF Head(sorted).publishedAt >= x.publishedAt
       THEN <<Head(sorted)>> \o InsertByDate(Tail(sorted), x)
       ELSE <<x>> \o sorted
RECURSIVE SortByDateFrom(_, _)
SortByDateFrom(sorted, rest) ==
  IF rest = <<>> THEN sorted
  ELSE SortByDateFrom(InsertByDate(sorted, Head(rest)), Tail(rest))
SortByDateDesc(seq) == SortByDateFrom(<<>>, seq)

\* Lines 463-465: the 14 most recent of the gathered uploads
streakOf(check) ==
  LET sorted == SortByDateDesc(check)
  IN SubSeq(sorted, 1, Min(STREAK_COUNT, Len(sorted)))

\* After the do-while of lines 440-460
AfterPlaylist(l, c, didSleep) ==
  LET l2 == [l EXCEPT !.streak = streakOf(l.videoIdsForCheck)]
  IN IF Len(l2.streak) < STREAK_COUNT
     THEN NextChannel([l2 EXCEPT !.ci = l.ci + 1], c, didSleep)
     ELSE Outcome("rec.stats", l2, None, didSleep)

\* One iteration of the do-while of lines 440-460
PlaylistStep(l, u, c, status) ==
  IF status # 200 THEN Answer(l, UpstreamFailure(status, "Erro playlistItems.list"), FALSE)
  ELSE
    LET pdata == PlaylistResponse(u, Val(l.chItems[l.ci].uploads), l.pageToken)
        l2 == [l EXCEPT !.videoIdsForCheck =
                           AddUploads(l.videoIdsForCheck, pdata.items, l.publishedAfter),
                        !.pageToken = pdata.nextPageToken]
    IN IF Len(l2.videoIdsForCheck) >= STREAK_COUNT THEN AfterPlaylist(l2, c, FALSE)
       ELSE IF l2.pageToken # 0 THEN Outcome("rec.playlist", l2, None, TRUE)
       ELSE AfterPlaylist(l2, c, TRUE)

\* Lines 473-477
allAbove(items) == \A k \in 1..Len(items) : NumberOr0(items[k].viewCount) >= STREAK_MIN_VIEWS

\* The entry pushed to `qualified` (lines 481-490)
QualifiedEntry(ch) ==
  [type |-> "channel", channelId |-> ch.id, subscriberCount |-> subsOf(ch),
   language |-> langHintOf(ch)]

\* Lines 467-490: the statistics call for the streak and its verdict
StatsStep(l, u, c, status) ==
  IF status # 200 THEN Answer(l, UpstreamFailure(status, "Erro videos.list (streak)"), FALSE)
  ELSE
    LET vdata == StatsResponse(u, MapSeq(l.streak, LAMBDA x : x.vId))
        l2 == IF allAbove(vdata.items)
              THEN [l EXCEPT !.qualified = Append(l.qualified, QualifiedEntry(l.chItems[l.ci]))]
              ELSE l
    IN NextChannel([l2 EXCEPT !.ci = l.ci + 1], c, FALSE)

RecVideosList ==
  /\ pc = "rec.videos"
  /\ \E status \in Statuses :
       /\ calls' = Append(calls, ListCall("videos", Slice(loc.ids, loc.i), status))
       /\ Apply(RecVideosStep(loc, up, status))
  /\ UNCHANGED <<req, up, now, cfg>>

RecChannelsList ==
  /\ pc = "rec.channels"
  /\ \E status \in Statuses :
       /\ calls' = Append(calls, ListCall("channels", Slice(loc.candidateChannels, loc.i), status))
       /\ Apply(RecChannelsStep(loc, up, cfg, status))
  /\ UNCHANGED <<req, up, now, cfg>>

PlaylistCall(l, status) ==
  [api |-> "playlistItems", term |-> <<>>, duration |-> "", pageToken |-> l.pageToken,
   ids |-> <<>>, channel |-> Some(l.chItems[l.ci].id), status |-> status, paced |-> slept]

PlaylistItemsList ==
  /\ pc = "rec.playlist"
  /\ loc.pageToken <= MaxPlaylistPages
  /\ \E status \in Statuses :
       /\ calls' = Append(calls, PlaylistCall(loc, status))
       /\ Apply(PlaylistStep(loc, up, cfg, status))
  /\ UNCHANGED <<req, up, now, cfg>>

StreakVideosList ==
  /\ pc = "rec.stats"
  /\ \E status \in Statuses :
       /\ calls' = Append(calls, [ListCall("streak", MapSeq(loc.streak, LAMBDA x : x.vId), status)
                                    EXCEPT !.channel = Some(loc.chItems[loc.ci].id)])
       /\ Apply(StatsStep(loc, up, cfg, status))
  /\ UNCHANGED <<req, up, now, cfg>>

-----------------------------------------------------------------------------
(* Entry of the handler (lines 124-157, 277-278, 373-374)                  *)

\* The stage a mode starts with, its search pipeline being entered with the
\* term list: with no term the loops of collectVideoIds* make no call
Dispatch(c, nowT) ==
  LET first(days, stage) ==
        LET l == [InitialLocals EXCEPT !.publishedAfter = isoXDaysAgo(nowT, days)]
        IN IF c.terms = <<>> THEN AfterCollect(l, stage, FALSE)
           ELSE Outcome(stage, l, None, FALSE)
  IN CASE c.mode = S_videos -> first(c.days, "collectWithDurations")
       [] c.mode = S_subnicho -> first(SUBNICHO_DAYS, "subnicho.collect")
       [] c.mode = S_rec_channels -> first(STREAK_WINDOW_DAYS, "rec.collect")

StartStep(r, nowT) ==
  IF r.method = "OPTIONS"
  THEN Answer(InitialLocals,
              [status |-> 204, items |-> None, error |-> None, details |-> None,
               cache |-> None], FALSE)
  ELSE IF ~r.hasKey
  THEN Answer(InitialLocals, ErrorResponse(500, "YT_API_KEY nao configurada.", None), FALSE)
  ELSE IF qRawOf(r) = <<>>
  THEN Answer(InitialLocals, ErrorResponse(400, "Use ?q=palavras", None), FALSE)
  ELSE Dispatch(ResolveConfig(r), nowT)

Start ==
  /\ pc = "start"
  /\ cfg' = ResolveConfig(req)
  /\ Apply(StartStep(req, now))
  /\ UNCHANGED <<req, up, now, calls>>

Init ==
  /\ now \in NowValues
  /\ \E sc \in VideosScenarios(now) \cup BatchScenarios(now)
                 \cup SubnichoScenarios(now) \cup RecScenarios(now) :
       req = sc.req /\ up = sc.up
  /\ pc = "start"
  /\ cfg = ResolveConfig(BaseRequest)
  /\ loc = InitialLocals
  /\ response = None
  /\ calls = <<>>
  /\ slept = FALSE

Next ==
  \/ Start
  \/ collectVideoIdsWithDurations
  \/ VideosList
  \/ ChannelsList
  \/ collectVideoIdsAny
  \/ SubnichoVideosList
  \/ SubnichoChannelsList
  \/ RecVideosList
  \/ RecChannelsList
  \/ PlaylistItemsList
  \/ StreakVideosList

Spec == Init /\ [][Next]_vars

\* The handler is paging through an upload history past the pages the model
\* follows
PagingOn == pc = "rec.playlist" /\ loc.pageToken > MaxPlaylistPages

\* The handler has a step to take: it has not answered, and its next upstream
\* call is one the model follows. This is ENABLED <<Next>>_vars.
Running == pc # "done" /\ ~PagingOn

\* The handler runs on: no step that can be taken is put off forever. This is
\* WF_vars(Next), with the enabling condition of Next written out.
FairSpec == Spec /\ ([]<>(~Running) \/ []<><<Next>>_vars)

-----------------------------------------------------------------------------
(* Properties                                                              *)

Done == pc = "done"
Answered == ~IsNone(response)
HasItems == Answered /\ ~IsNone(Val(response).items)
Items == Val(Val(response).items)
Failed == \E k \in 1..Len(calls) : calls[k].status # 200
VideosDone == Done /\ HasItems /\ cfg.mode = S_videos
SubnichoDone == Done /\ HasItems /\ cfg.mode = S_subnicho
RecDone == Done /\ HasItems /\ cfg.mode = S_rec_channels

\* The identifiers the upstream returns on the pages of one duration bucket
\* that lie within the page budget, each page reached through the token of the
\* one before it
ReachedPages(duration, pages) ==
  {n \in 1..Min(pages, Len(up.search[duration])) :
     \A m \in 1..(n - 1) : up.search[duration][m].more}
PageItems(duration, pages) ==
  UNION {Range(up.search[duration][n].items) : n \in ReachedPages(duration, pages)}
ReturnedIds(durs, pages) ==
  IF cfg.terms = <<>> THEN {}
  ELSE {Val(it) : it \in {x \in UNION {PageItems(d, pages) : d \in durs} : ~IsNone(x)}}

\* C1: in videos mode every item of the response has viewCount >= minViews,
\* durationSec >= minDurationSec, publishedAt >= now - days, aspect ratio >= 1.2,
\* a title without '#shorts' in any letter case, and an allowed language.
C1_ItemsSatisfyPredicate ==
  VideosDone =>
    \A k \in 1..Len(Items) :
      LET it == Items[k] IN
      /\ it.viewCount >= cfg.minViews
      /\ it.durationSec >= cfg.minDurationSec
      /\ it.publishedAt >= now - cfg.days
      /\ 10 * it.aspectRatio[1] >= 12 * it.aspectRatio[2]
      /\ ~Includes(ToLowerCase(it.title), S_shorts)
      /\ ~IsNone(it.language)
      /\ Val(it.language) \in cfg.allowedLangsSet
      \* and these are the values of the upstream record of the item
      /\ ~IsNone(up.videos[it.videoId])
      /\ LET v == Val(up.videos[it.videoId]) IN
         /\ it.viewCount = NumberOr0(v.viewCount)
         /\ Some(it.publishedAt) = v.publishedAt
         /\ it.durationSec = parseISODuration(v.duration)
         /\ it.title = OrEmpty(v.title)

\* C1 witness: a videos-mode response with items from which a video the
\* upstream holds was filtered out
C1_Witness ==
  /\ VideosDone
  /\ Items # <<>>
  /\ \E id \in Range(loc.ids) :
       ~IsNone(up.videos[id]) /\ \A k \in 1..Len(Items) : Items[k].videoId # id

\* The qualification of a returned identifier, read off the upstream records:
\* everything but the subscriber ceiling, and the subscriber ceiling
QualifiesApartFromSubs(id) ==
  /\ ~IsNone(up.videos[id])
  /\ LET v == Val(up.videos[id]) IN
     /\ ~IsNone(v.publishedAt)
     /\ PerVideoPredicate(NumberOr0(v.viewCount), Val(v.publishedAt),
                          parseISODuration(v.duration), ratioOf(pickThumb(v.thumbnails)),
                          OrEmpty(v.title), cfg, now - cfg.days)
     /\ ~IsNone(v.channelId)
     /\ ~IsNone(up.channels[Val(v.channelId)])
     /\ LET ch == Val(up.channels[Val(v.channelId)])
            declared == normalizeLang(OrElse(v.defaultAudioLanguage, v.defaultLanguage))
            lang == IF ~IsNone(declared) THEN declared ELSE langHintOf(ch)
        IN ~IsNone(lang) /\ Val(lang) \in cfg.allowedLangsSet
UpstreamChannelOf(id) == Val(up.channels[Val(Val(up.videos[id]).channelId)])
WithinCeiling(id) ==
  cfg.maxSubs > 0 =>
    /\ ~UpstreamChannelOf(id).hiddenSubscriberCount
    /\ NumberOr0(UpstreamChannelOf(id).subscriberCount) <= cfg.maxSubs
Qualifies(id) == QualifiesApartFromSubs(id) /\ WithinCeiling(id)

ExpectedItem(id, it) ==
  LET v == Val(up.videos[id])
      ch == Val(up.channels[Val(v.channelId)])
      declared == normalizeLang(OrElse(v.defaultAudioLanguage, v.defaultLanguage))
  IN /\ it.videoId = id
     /\ it.subscriberCount = (IF ch.hiddenSubscriberCount THEN None
                              ELSE Some(NumberOr0(ch.subscriberCount)))
     /\ it.language = (IF ~IsNone(declared) THEN declared ELSE langHintOf(ch))

\* C2: in videos mode every identifier returned by a search page within the
\* page budget that qualifies (per-video predicate, subscriber ceiling,
\* allowed language) is in the response exactly once, with the channel's
\* subscriber count and the resolved language, and nothing else is.
C2_QualifiedOnce ==
  VideosDone =>
    LET expected == {id \in ReturnedIds({"medium", "long"}, cfg.pages) : Qualifies(id)}
    IN /\ \A id \in expected :
            /\ Cardinality({k \in 1..Len(Items) : Items[k].videoId = id}) = 1
            /\ \E k \in 1..Len(Items) : ExpectedItem(id, Items[k])
       /\ Len(Items) = Cardinality(expected)

\* C2 witness: the 200,000-view, 10-minute, 16:9, 5-day-old video of a US
\* channel with 10,000 subscribers, returned by both duration buckets and alone
\* in the catalogue, is the one item, with language 'en' and subscriberCount 10000
C2_Witness ==
  /\ VideosDone
  /\ req = BaseRequest
  /\ up.videos[1] = Some(BaseVideo(1, 1, now))
  /\ \A id \in DOMAIN up.videos : id # 1 => IsNone(up.videos[id])
  /\ Len(Items) = 1
  /\ Cardinality({k \in 1..Len(calls) : calls[k].api = "search"}) = 2
  /\ Some(1) \in PageItems("medium", 1) \cap PageItems("long", 1)
  /\ Items[1].videoId = 1
  /\ Items[1].language = Some("en")
  /\ Items[1].subscriberCount = Some(10000)

ItemIds == {Items[k].videoId : k \in 1..Len(Items)}

\* C3: in videos mode, with maxSubs resolved to 0 no video is left out for its
\* channel's subscriber count (hidden counts included); with maxSubs > 0 no
\* item belongs to a channel with a hidden count and no item has
\* subscriberCount > maxSubs.
C3_SubscriberCeiling ==
  VideosDone =>
    /\ cfg.maxSubs = 0 =>
         \A id \in ReturnedIds({"medium", "long"}, cfg.pages) :
           QualifiesApartFromSubs(id) => id \in ItemIds
    /\ cfg.maxSubs > 0 =>
         \A k \in 1..Len(Items) :
           /\ ~IsNone(Items[k].subscriberCount)
           /\ Val(Items[k].subscriberCount) <= cfg.maxSubs
           /\ ~UpstreamChannelOf(Items[k].videoId).hiddenSubscriberCount

\* C3 witness: maxSubs resolved to 0 and the video of a channel with a hidden
\* subscriber count is in the response
C3_Witness ==
  /\ VideosDone
  /\ cfg.maxSubs = 0
  /\ \E k \in 1..Len(Items) :
       /\ IsNone(Items[k].subscriberCount)
       /\ UpstreamChannelOf(Items[k].videoId).hiddenSubscriberCount

\* A channel whose subscriber count the upstream hides or does not give
CountUnknown(ch) == ch.hiddenSubscriberCount \/ IsNone(ch.subscriberCount)

\* C4: a channel whose subscriber count is unknown or hidden is stored with a
\* null count, never with 0, and its videos are in no response under an
\* active ceiling, nor is the channel reported by the streak mode.
C4_UnknownCountIsNull ==
  /\ \A id \in DOMAIN loc.channelMeta :
       CountUnknown(Val(up.channels[id])) => IsNone(loc.channelMeta[id].subs)
  /\ (VideosDone /\ cfg.maxSubs > 0) =>
       \A k \in 1..Len(Items) : ~CountUnknown(UpstreamChannelOf(Items[k].videoId))
  /\ SubnichoDone =>
       \A k \in 1..Len(Items) :
         CountUnknown(Val(up.channels[Items[k].channelId])) => IsNone(Items[k].subscriberCount)
  /\ RecDone =>
       \A k \in 1..Len(Items) : ~CountUnknown(Val(up.channels[Items[k].channelId]))

\* C5: the items of a videos-mode or subnicho-mode response are in
\* non-increasing order of viewCount.
C5_SortedByViews ==
  /\ VideosDone =>
       \A k \in 1..(Len(Items) - 1) : Items[k].viewCount >= Items[k + 1].viewCount
  /\ SubnichoDone =>
       \A k \in 1..(Len(Items) - 1) :
         /\ ~IsNone(Items[k].viewCount) /\ ~IsNone(Items[k + 1].viewCount)
         /\ Val(Items[k].viewCount) >= Val(Items[k + 1].viewCount)

\* C5 witness: a videos-mode response of at least two items of which the one
\* with more views was enriched after the other
C5_Witness ==
  /\ VideosDone
  /\ Len(Items) >= 2
  /\ Items[1].viewCount > Items[2].viewCount
  /\ \E m, n \in 1..Len(loc.videos) :
       m < n /\ loc.videos[n].videoId = Items[1].videoId
             /\ loc.videos[m].videoId = Items[2].videoId

\* The upload history of a channel as the upstream holds it: the entries of
\* all the pages of its uploads playlist that carry an identifier and a date
RECURSIVE Concat(_)
Concat(seqs) == IF seqs = <<>> THEN <<>> ELSE Head(seqs) \o Concat(Tail(seqs))
UploadDate(it) ==
  IF ~IsNone(it.videoPublishedAt) THEN it.videoPublishedAt ELSE it.snippetPublishedAt
UploadsOf(ch) ==
  IF IsNone(ch.uploads) THEN {}
  ELSE {it \in Range(Concat([n \in 1..Len(up.uploads[Val(ch.uploads)]) |->
                               up.uploads[Val(ch.uploads)][n].items])) :
          ~IsNone(it.videoId) /\ ~IsNone(UploadDate(it))}
InWindowUploads(ch) ==
  {it \in UploadsOf(ch) : Val(UploadDate(it)) >= now - STREAK_WINDOW_DAYS}
MostRecentUploads(ch) ==
  {it \in InWindowUploads(ch) :
     Cardinality({o \in InWindowUploads(ch) : Val(UploadDate(o)) > Val(UploadDate(it))})
       < STREAK_COUNT}
\* The view count of an upload is confirmed to reach the floor
Confirmed(it) ==
  /\ ~IsNone(up.stats[Val(it.videoId)])
  /\ NumberOr0(Val(up.stats[Val(it.videoId)]).viewCount) >= STREAK_MIN_VIEWS
\* No view count the upstream returns for the upload lies below the floor
NotRefuted(it) ==
  ~IsNone(up.stats[Val(it.videoId)]) =>
    NumberOr0(Val(up.stats[Val(it.videoId)]).viewCount) >= STREAK_MIN_VIEWS

\* The candidate channels that pass the subscriber and language checks
PassingCandidates ==
  {id \in Range(loc.candidateChannels) :
     /\ ~IsNone(up.channels[id])
     /\ LET ch == Val(up.channels[id]) IN
        /\ ~ch.hiddenSubscriberCount
        /\ NumberOr0(ch.subscriberCount) <= STREAK_MAX_SUBS
        /\ ~IsNone(langHintOf(ch))
        /\ Val(langHintOf(ch)) \in cfg.allowedLangsSet}
Reported == {Items[k].channelId : k \in 1..Len(Items)}

\* C6: in rec_channels mode a candidate channel that passes the subscriber and
\* language checks is reported if and only if it has at least 14 uploads in
\* the 30-day window and each of its 14 most recent uploads is confirmed to
\* have at least 15,000 views.
C6_ReportedIffStreak ==
  (RecDone /\ ~Failed) =>
    \A id \in PassingCandidates :
      id \in Reported <=>
        /\ Cardinality(InWindowUploads(Val(up.channels[id]))) >= STREAK_COUNT
        /\ \A it \in MostRecentUploads(Val(up.channels[id])) : Confirmed(it)

\* What the code does for C6: it reports the channel if and only if it has 14
\* uploads in the window and no view count returned for the 14 most recent
\* lies below 15,000, uploads the statistics call leaves out included.
C6_ReportedIffNotRefuted ==
  (RecDone /\ ~Failed) =>
    \A id \in PassingCandidates :
      id \in Reported <=>
        /\ Cardinality(InWindowUploads(Val(up.channels[id]))) >= STREAK_COUNT
        /\ \A it \in MostRecentUploads(Val(up.channels[id])) : NotRefuted(it)

\* C7: every channel reported in rec_channels mode has a subscriber count that
\* is not null and at most 150,000 and a language of the allowed set; a channel
\* with a hidden count, more than 150,000 subscribers or no allowed language is
\* never reported.
C7_ReportedWithinCeiling ==
  RecDone =>
    \A k \in 1..Len(Items) :
      /\ ~IsNone(Items[k].subscriberCount)
      /\ Val(Items[k].subscriberCount) <= STREAK_MAX_SUBS
      /\ ~IsNone(Items[k].language)
      /\ Val(Items[k].language) \in cfg.allowedLangsSet
      /\ Items[k].channelId \in PassingCandidates

\* C7 witness: a rec_channels response that reports a channel and leaves out a
\* candidate with a hidden count, more than 150,000 subscribers or no allowed
\* language
C7_Witness ==
  /\ RecDone
  /\ Items # <<>>
  /\ \E id \in Range(loc.candidateChannels) :
       /\ id \notin PassingCandidates
       /\ ~IsNone(up.channels[id])
       /\ id \notin Reported

\* The channels an upload-history or streak-statistics call was issued for
EvaluatedChannels ==
  {Val(calls[k].channel) :
     k \in {n \in 1..Len(calls) : calls[n].api \in {"playlistItems", "streak"}}}

\* The distinct channels of the discovered videos that reach the streak floor
\* inside the window, in the order the search returned their videos
DiscoveryOrder ==
  LET hits == SelectSeq(loc.ids, LAMBDA id :
                /\ ~IsNone(up.videos[id])
                /\ ~IsNone(Val(up.videos[id]).publishedAt)
                /\ Val(Val(up.videos[id]).publishedAt) >= now - STREAK_WINDOW_DAYS
                /\ NumberOr0(Val(up.videos[id]).viewCount) >= STREAK_MIN_VIEWS
                /\ ~IsNone(Val(up.videos[id]).channelId))
  IN SetAddAll(<<>>, [k \in 1..Len(hits) |-> Val(Val(up.videos[hits[k]]).channelId)])

\* C8: upload-history and streak calls are issued for at most 25 distinct
\* channels, all among the first 25 distinct channels in discovery order.
C8_AtMostCandidatesEvaluated ==
  /\ Cardinality(EvaluatedChannels) <= MAX_CHANNEL_CANDIDATES
  /\ EvaluatedChannels \subseteq
       {DiscoveryOrder[n] : n \in 1..Min(MAX_CHANNEL_CANDIDATES, Len(DiscoveryOrder))}

\* C8 witness: more than 25 channels were discovered and 25 were evaluated
C8_Witness ==
  /\ RecDone
  /\ Len(DiscoveryOrder) > MAX_CHANNEL_CANDIDATES
  /\ Cardinality(EvaluatedChannels) = MAX_CHANNEL_CANDIDATES

\* The status and the body of the upstream answer that failed
FailedCall == calls[CHOOSE k \in 1..Len(calls) : calls[k].status # 200]

\* C9: whenever an upstream call of any stage is answered with a non-success
\* status, the response carries that status, with the upstream body as detail.
C9_UpstreamStatusCarried ==
  (Done /\ Failed) =>
    /\ Val(response).status = FailedCall.status
    /\ Val(response).details = Some(UpstreamBody(FailedCall.status))

\* What the code does for C9: the stages after discovery carry the upstream
\* status and body; a failed search call is answered with status 500 and the
\* upstream status and body inside the detail string.
C9_StatusCarriedAfterDiscovery ==
  (Done /\ Failed) =>
    IF FailedCall.api = "search"
    THEN /\ Val(response).status = 500
         /\ Val(response).details =
              Some(<<"Error: search.list", FailedCall.status, UpstreamBody(FailedCall.status)>>)
    ELSE /\ Val(response).status = FailedCall.status
         /\ Val(response).details = Some(UpstreamBody(FailedCall.status))

\* C10: a non-success upstream answer is the last upstream call of the
\* request, and the response is then an error body without items.
C10_FailFast ==
  /\ \A k \in 1..(Len(calls) - 1) : calls[k].status = 200
  /\ Failed =>
       /\ Done
       /\ Answered
       /\ IsNone(Val(response).items)
       /\ ~IsNone(Val(response).error)
       /\ Val(response).status >= 400

\* C10 witness: channel enrichment failed after videos had passed the
\* per-video predicate
C10_Witness ==
  /\ Done
  /\ Failed
  /\ FailedCall.api = "channels"
  /\ loc.videos # <<>>

\* The search text of the request is missing or holds nothing but whitespace
EmptyQuery ==
  IsNone(req.q) \/ \A i \in 1..Len(Val(req.q)) : Val(req.q)[i] \in Whitespace

IsIntegerLiteral(param) ==
  /\ ~IsNone(param)
  /\ Val(param) # <<>>
  /\ \A i \in 1..Len(Val(param)) : IsDigit(Val(param)[i])
LiteralValue(param) == DigitsValue(Val(param), 0)
Unparsed(param) == IsNone(param) \/ ParseInt(Val(param)).nan

\* The resolved threshold is the supplied integer when that is at least `least`
ExplicitWins(param, resolved, least) ==
  (IsIntegerLiteral(param) /\ LiteralValue(param) >= least) => resolved = LiteralValue(param)
\* The resolved threshold is the default when the parameter is absent or does
\* not parse
DefaultWhenUnparsed(param, resolved, dflt) == Unparsed(param) => resolved = dflt

\* C12: minViews, maxSubs and minDurationSec resolve to the supplied integer
\* whenever it is >= 0, the value 0 included, days to the supplied integer
\* whenever it is >= 1, and each resolves to its default when the parameter is
\* absent or does not parse.
C12_ExplicitWins ==
  pc # "start" =>
    /\ ExplicitWins(req.minViews, cfg.minViews, 0)
    /\ ExplicitWins(req.maxSubs, cfg.maxSubs, 0)
    /\ ExplicitWins(req.minDurationSec, cfg.minDurationSec, 0)
    /\ ExplicitWins(req.days, cfg.days, 1)
    /\ DefaultWhenUnparsed(req.minViews, cfg.minViews, DEFAULT_MIN_VIEWS)
    /\ DefaultWhenUnparsed(req.maxSubs, cfg.maxSubs, DEFAULT_MAX_SUBS)
    /\ DefaultWhenUnparsed(req.minDurationSec, cfg.minDurationSec, DEFAULT_MIN_DURATION_SEC)
    /\ DefaultWhenUnparsed(req.days, cfg.days, DEFAULT_DAYS)

\* What the code does for C12: a supplied integer >= 1 is the resolved
\* threshold and an absent or unparsed parameter resolves to the default; a
\* supplied 0 resolves to the default as well.
C12_PositiveExplicitWins ==
  pc # "start" =>
    /\ ExplicitWins(req.minViews, cfg.minViews, 1)
    /\ ExplicitWins(req.maxSubs, cfg.maxSubs, 1)
    /\ ExplicitWins(req.minDurationSec, cfg.minDurationSec, 1)
    /\ ExplicitWins(req.days, cfg.days, 1)
    /\ DefaultWhenUnparsed(req.minViews, cfg.minViews, DEFAULT_MIN_VIEWS)
    /\ DefaultWhenUnparsed(req.maxSubs, cfg.maxSubs, DEFAULT_MAX_SUBS)
    /\ DefaultWhenUnparsed(req.minDurationSec, cfg.minDurationSec, DEFAULT_MIN_DURATION_SEC)
    /\ DefaultWhenUnparsed(req.days, cfg.days, DEFAULT_DAYS)
    /\ \A f \in {"minViews", "maxSubs", "minDurationSec"} :
         (IsIntegerLiteral(req[f]) /\ LiteralValue(req[f]) = 0) =>
           cfg[f] = (CASE f = "minViews" -> DEFAULT_MIN_VIEWS
                       [] f = "maxSubs" -> DEFAULT_MAX_SUBS
                       [] f = "minDurationSec" -> DEFAULT_MIN_DURATION_SEC)

\* The step the handler takes at `stage` when the upstream answers with success
StepOf(stage, l, u, c) ==
  CASE stage = "collectWithDurations" ->
         CollectStep(l, u, c, DURATIONS, c.pages, stage, "videos.videos", 200)
    [] stage = "videos.videos" -> VideosListStep(l, u, c, 200)
    [] stage = "videos.channels" -> ChannelsListStep(l, u, c, 200)
    [] stage = "subnicho.collect" ->
         CollectStep(l, u, c, <<"any">>, c.pages, stage, "subnicho.videos", 200)
    [] stage = "subnicho.videos" -> SubnichoVideosStep(l, u, 200)
    [] stage = "subnicho.channels" -> SubnichoChannelsStep(l, u, c, 200)
    [] stage = "rec.collect" -> CollectStep(l, u, c, <<"any">>, 1, stage, "rec.videos", 200)
    [] stage = "rec.videos" -> RecVideosStep(l, u, 200)
    [] stage = "rec.channels" -> RecChannelsStep(l, u, c, 200)
    [] stage = "rec.playlist" -> PlaylistStep(l, u, c, 200)
    [] stage = "rec.stats" -> StatsStep(l, u, c, 200)

\* The response of a whole run of the handler on request r and dataset u
\* started at the instant nowT, every upstream call succeeding (status 0: the
\* run is still paging through an upload history)
RECURSIVE RunFrom(_, _, _)
RunFrom(o, u, c) ==
  IF o.pc = "done" THEN Val(o.response)
  ELSE IF o.pc = "rec.playlist" /\ o.loc.pageToken > MaxPlaylistPages
  THEN [status |-> 0, items |-> None, error |-> None, details |-> None, cache |-> None]
  ELSE RunFrom(StepOf(o.pc, o.loc, u, c), u, c)
Run(r, u, nowT) == RunFrom(StartStep(r, nowT), u, ResolveConfig(r))

\* How much later the second of two runs starts, in days
LaterStarts == {1, 2}

\* The lookback window of the mode, in days
WindowDays ==
  CASE cfg.mode = S_videos -> cfg.days
    [] cfg.mode = S_subnicho -> SUBNICHO_DAYS
    [] cfg.mode = S_rec_channels -> STREAK_WINDOW_DAYS

\* The publication dates of the upstream records: videos and upload entries
PageDates(page) ==
  {Val(d) : d \in {x \in UNION {{page.items[k].videoPublishedAt,
                                  page.items[k].snippetPublishedAt} :
                                   k \in 1..Len(page.items)} : ~IsNone(x)}}
UploadDates ==
  UNION {UNION {PageDates(up.uploads[ch][n]) : n \in 1..Len(up.uploads[ch])} :
           ch \in DOMAIN up.uploads}
UpstreamDates ==
  {Val(Val(up.videos[id]).publishedAt) :
     id \in {i \in DOMAIN up.videos :
               ~IsNone(up.videos[i]) /\ ~IsNone(Val(up.videos[i]).publishedAt)}}
  \cup UploadDates

\* A run started at t looks back on the same upstream records as this run: no
\* publication date lies between the two window starts
SameWindow(t) ==
  \A date \in UpstreamDates : (date >= now - WindowDays) <=> (date >= t - WindowDays)

C14_CacheReflectsEmptiness ==
  VideosDone => Val(response).cache = Some(IF Items = <<>> THEN 600 ELSE 3600)

\* What the code does for C14: the response carries s-maxage=600 when no
\* identifier was found or no video passed the per-video predicate, and
\* s-maxage=3600 otherwise, also when the subscriber and language filter left
\* no item.
C14_CacheByStage ==
  VideosDone =>
    /\ Val(response).cache = Some(IF loc.videos = <<>> THEN 600 ELSE 3600)
    /\ Items # <<>> => Val(response).cache = Some(3600)

\* The per-video predicate of the videos mode on an upload, with the streak's
\* view-count floor and window and the resolved duration floor
UploadQualifies(it) ==
  LET v == Val(up.stats[Val(it.videoId)])
  IN PerVideoPredicate(NumberOr0(v.viewCount), Val(UploadDate(it)),
                       parseISODuration(v.duration), ratioOf(pickThumb(v.thumbnails)),
                       OrEmpty(v.title),
                       [minViews |-> STREAK_MIN_VIEWS, minDurationSec |-> cfg.minDurationSec],
                       now - STREAK_WINDOW_DAYS)

\* C15: in rec_channels mode each of the 14 most recent uploads of a reported
\* channel passes the full per-video predicate: view-count floor, recency,
\* duration floor, aspect ratio >= 1.2 and no shorts marker in the title.
C15_StreakUsesFullPredicate ==
  (RecDone /\ ~Failed) =>
    \A id \in Reported :
      \A it \in MostRecentUploads(Val(up.channels[id])) :
        ~IsNone(up.stats[Val(it.videoId)]) => UploadQualifies(it)

\* What the code does for C15: of the predicate, the uploads of a reported
\* channel are held to the view-count floor and the window only.
C15_StreakChecksViewsAndWindow ==
  (RecDone /\ ~Failed) =>
    \A id \in Reported :
      \A it \in MostRecentUploads(Val(up.channels[id])) :
        /\ Val(UploadDate(it)) >= now - STREAK_WINDOW_DAYS
        /\ ~IsNone(up.stats[Val(it.videoId)]) =>
             NumberOr0(Val(up.stats[Val(it.videoId)]).viewCount) >= STREAK_MIN_VIEWS

\* The search calls of the request, the page each one asks for within its
\* (term, duration) combination, and the token the upstream answers it with
SearchCalls == {k \in 1..Len(calls) : calls[k].api = "search"}
RECURSIVE PageNo(_)
PageNo(k) == IF k = 1 \/ calls[k].pageToken = 0 THEN 1 ELSE 1 + PageNo(k - 1)
TokenAfter(k) == SearchResponse(up, calls[k].duration, calls[k].pageToken).nextPageToken
SameCombination(j, k) ==
  /\ calls[j].api = "search" /\ calls[k].api = "search"
  /\ calls[j].term = calls[k].term
  /\ calls[j].duration = calls[k].duration

\* The request passed the checks of lines 126-132
Validated == req.method # "OPTIONS" /\ req.hasKey /\ ~EmptyQuery

\* C16: in videos mode the page budget is within 1..MAX_PAGES; a search call
\* asks for a further page only with the token its predecessor returned for
\* the same term and duration bucket, and never for more than `pages` pages; a
\* returned token is followed while the budget lasts; the request issues at
\* most |terms| x 2 x pages search calls, in full runs one first page for each
\* term and bucket.
C16_PaginationFollowsTokens ==
  (pc # "start" /\ cfg.mode = S_videos) =>
    /\ cfg.pages \in 1..MAX_PAGES
    /\ Cardinality(SearchCalls) <= Len(cfg.terms) * Len(DURATIONS) * cfg.pages
    /\ \A k \in SearchCalls :
         /\ PageNo(k) <= cfg.pages
         /\ calls[k].pageToken # 0 =>
              /\ k > 1
              /\ SameCombination(k - 1, k)
              /\ calls[k - 1].status = 200
              /\ TokenAfter(k - 1) = calls[k].pageToken
         /\ (k < Len(calls) /\ TokenAfter(k) # 0 /\ PageNo(k) < cfg.pages) =>
              /\ SameCombination(k, k + 1)
              /\ calls[k + 1].pageToken = TokenAfter(k)
    /\ (Validated /\ pc # "collectWithDurations"
          /\ \A k \in SearchCalls : calls[k].status = 200) =>
         Cardinality({k \in SearchCalls : calls[k].pageToken = 0})
           = Len(cfg.terms) * Len(DURATIONS)

\* C16 witness: pages=9 resolved to 2; the second page of a bucket was asked
\* for and answered with a further token that was not followed, and the other
\* bucket ended on its first page for lack of a token
C16_Witness ==
  /\ VideosDone
  /\ req.pages = Some(<<"9">>)
  /\ cfg.pages = MAX_PAGES
  /\ \E k \in SearchCalls : PageNo(k) = MAX_PAGES /\ TokenAfter(k) # 0
  /\ \E k \in SearchCalls : PageNo(k) = 1 /\ TokenAfter(k) = 0

\* C17: every upstream call but the first of a request is issued after a
\* pacing delay that elapsed since the call before it returned.
C17_AlwaysPaced == \A k \in 2..Len(calls) : calls[k].paced

\* What the code does for C17: a call is preceded by a sleep exactly when the
\* call before it was a batch of videos.list, a batch of channels.list outside
\* the rec_channels mode, a search answered with a continuation token, or a
\* page of an upload history that is followed by another upload-history call.
\* No sleep separates the last page of a search combination from the next
\* combination or from enrichment, channels.list from the first
\* upload-history call, the upload-history listing from the streak statistics,
\* or the streak statistics from the next channel.
C17_PacedAfterBatchesAndPages ==
  \A k \in 2..Len(calls) :
    calls[k].paced <=>
      \/ calls[k - 1].api = "videos"
      \/ calls[k - 1].api = "channels" /\ cfg.mode # S_rec_channels
      \/ calls[k - 1].api = "search" /\ TokenAfter(k - 1) # 0
      \/ calls[k - 1].api = "playlistItems" /\ calls[k].api = "playlistItems"

\* The identifiers sent to one enrichment operation, over all its calls in order
Sent(api) ==
  LET of == SelectSeq(calls, LAMBDA call : call.api = api)
  IN Concat([k \in 1..Len(of) |-> of[k].ids])
NoDuplicates(seq) == Cardinality(Range(seq)) = Len(seq)
BatchesFor(n) == (n + BATCH_SIZE - 1) \div BATCH_SIZE
BatchCalls(api) == {k \in 1..Len(calls) : calls[k].api = api}

\* The channels of the returned videos that pass the per-video predicate
ChannelsToEnrich ==
  {Val(Val(up.videos[id]).channelId) :
     id \in {i \in ReturnedIds({"medium", "long"}, cfg.pages) :
               /\ ~IsNone(up.videos[i])
               /\ LET v == Val(up.videos[i]) IN
                  /\ ~IsNone(v.publishedAt)
                  /\ ~IsNone(v.channelId)
                  /\ PerVideoPredicate(NumberOr0(v.viewCount), Val(v.publishedAt),
                                       parseISODuration(v.duration),
                                       ratioOf(pickThumb(v.thumbnails)), OrEmpty(v.title),
                                       cfg, now - cfg.days)}}

PlaylistCalls == {k \in 1..Len(calls) : calls[k].api = "playlistItems"}
UploadPagesOf(k) == up.uploads[Val(Val(up.channels[Val(calls[k].channel)]).uploads)]
PageBefore(k) ==
  IF calls[k].pageToken - 1 <= Len(UploadPagesOf(k))
  THEN UploadPagesOf(k)[calls[k].pageToken - 1].items ELSE <<>>
OutsideWindow(it) ==
  ~IsNone(UploadDate(it)) /\ Val(UploadDate(it)) < now - STREAK_WINDOW_DAYS
GatheredBefore(k) ==
  Cardinality({it \in Range(Concat([n \in 1..Min(calls[k].pageToken - 1, Len(UploadPagesOf(k)))
                                      |-> UploadPagesOf(k)[n].items])) :
                 /\ ~IsNone(it.videoId) /\ ~IsNone(UploadDate(it))
                 /\ Val(UploadDate(it)) >= now - STREAK_WINDOW_DAYS})

\* C19: a further page of an upload history is asked for only while fewer
\* than 14 in-window uploads are gathered and the page just read held no entry
\* older than the 30-day window.
C19_StopsPastWindow ==
  \A k \in PlaylistCalls :
    calls[k].pageToken # 0 =>
      /\ GatheredBefore(k) < STREAK_COUNT
      /\ \A n \in 1..Len(PageBefore(k)) : ~OutsideWindow(PageBefore(k)[n])

\* What the code does for C19: a further page is asked for while fewer than 14
\* in-window uploads are gathered and the upstream returned a token, whatever
\* the age of the entries read.
C19_StopsOnceGathered ==
  \A k \in PlaylistCalls :
    /\ calls[k].pageToken # 0 =>
         /\ GatheredBefore(k) < STREAK_COUNT
         /\ k > 1 /\ calls[k - 1].api = "playlistItems"
         /\ calls[k - 1].channel = calls[k].channel
         /\ PlaylistResponse(up, Val(Val(up.channels[Val(calls[k].channel)]).uploads),
                             calls[k - 1].pageToken).nextPageToken = calls[k].pageToken
    /\ (k < Len(calls) /\ calls[k].status = 200 /\ GatheredBefore(k + 1) < STREAK_COUNT
          /\ calls[k + 1].api = "playlistItems" /\ calls[k + 1].channel = calls[k].channel) =>
         calls[k + 1].pageToken # 0

\* The page of the upload history the k-th call asks for
UploadPageNo(k) == IF calls[k].pageToken = 0 THEN 1 ELSE calls[k].pageToken

\* C20: the upstream calls of a request stay within its budgets: no walk over
\* pages, whether a term and duration combination of discovery or a channel's
\* upload history, asks for more pages than the page budget of the request.
C20_CallsWithinPageBudget ==
  /\ \A k \in SearchCalls : PageNo(k) <= cfg.pages
  /\ \A k \in PlaylistCalls : UploadPageNo(k) <= cfg.pages

\* What the code does for C20: discovery never asks for more than the page
\* budget of a combination; the walk over an upload history has no budget.
C20_DiscoveryWithinPageBudget == \A k \in SearchCalls : PageNo(k) <= cfg.pages

\* C20: every request eventually ends with a response, whatever the upstream
\* answers, an upstream that returns a continuation token on every page
\* included.
C20_Terminates == <>Done

\* What the code does for C20: a request ends with a response unless it pages
\* on through an upload history whose every page carries a token without ever
\* gathering 14 in-window uploads.
C20_TerminatesUnlessPagingOn == <>(Done \/ PagingOn)

\* A request has at most one response, given when the handler ends
C20_OneResponse ==
  /\ Done <=> Answered
  /\ [][Answered => UNCHANGED response]_vars

\* The tag a video declares: defaultAudioLanguage, else defaultLanguage; empty
\* when it declares none
DeclaredTag(v) ==
  IF ~IsNone(v.defaultAudioLanguage) /\ Val(v.defaultAudioLanguage) # <<>>
  THEN Val(v.defaultAudioLanguage)
  ELSE IF ~IsNone(v.defaultLanguage) /\ Val(v.defaultLanguage) # <<>>
  THEN Val(v.defaultLanguage) ELSE <<>>

\* Where the first '-' of a tag stands, or one past its end
DashAt(tag) ==
  IF \E i \in 1..Len(tag) : tag[i] = "-"
  THEN CHOOSE i \in 1..Len(tag) : tag[i] = "-" /\ \A j \in 1..(i - 1) : tag[j] # "-"
  ELSE Len(tag) + 1

\* The lower-cased base form of a tag, null when it is empty
BaseForm(tag) ==
  LET base == ToLowerCase(SubSeq(tag, 1, DashAt(tag) - 1))
  IN IF base = <<>> THEN None ELSE Some(Str(base))

\* The language of a returned identifier, read off the upstream records: the
\* base form of the declared tag, and the channel's hint only when that is null
ResolvedLanguage(id) ==
  LET declared == BaseForm(DeclaredTag(Val(up.videos[id])))
  IN IF ~IsNone(declared) THEN declared ELSE langHintOf(UpstreamChannelOf(id))

\* C21: in videos mode the language of a video is the lower-cased base form
\* of its declared tag, cut at the first '-', and only when that is null the
\* hint derived from its channel's country; every item of the response
\* carries this value in `language`, and a video for which it is null is
\* never in the response.
C21_LanguageResolved ==
  cfg.mode = S_videos =>
    /\ \A k \in 1..Len(loc.videos) :
         loc.videos[k].videoLang =
           BaseForm(DeclaredTag(Val(up.videos[loc.videos[k].videoId])))
    /\ VideosDone =>
         /\ \A k \in 1..Len(Items) :
              /\ Items[k].language = ResolvedLanguage(Items[k].videoId)
              /\ ~IsNone(Items[k].language)
         /\ \A id \in ReturnedIds({"medium", "long"}, cfg.pages) :
              (/\ ~IsNone(up.videos[id])
               /\ ~IsNone(Val(up.videos[id]).channelId)
               /\ ~IsNone(up.channels[Val(Val(up.videos[id]).channelId)])
               /\ IsNone(ResolvedLanguage(id))) => id \notin ItemIds

\* A response with an item whose tag carries a region suffix, and one whose
\* language comes from its channel's country
C21_Witness ==
  /\ VideosDone
  /\ \E k \in 1..Len(Items) :
       LET tag == DeclaredTag(Val(up.videos[Items[k].videoId]))
       IN DashAt(tag) <= Len(tag) /\ ~IsNone(Items[k].videoLang)
  /\ \E k \in 1..Len(Items) :
       IsNone(Items[k].videoLang) /\ ~IsNone(Items[k].language)

\* 3600*h + 60*m + s of a set of components
SecondsOf(comp) ==
  3600 * (IF IsNone(comp.h) THEN 0 ELSE Val(comp.h))
  + 60 * (IF IsNone(comp.m) THEN 0 ELSE Val(comp.m))
  + (IF IsNone(comp.s) THEN 0 ELSE Val(comp.s))

\* The seconds a duration field stands for: those of the components it is the
\* code of, 0 when it is absent or the code of no components
ExpectedSeconds(duration) ==
  IF IsNone(duration) THEN 0
  ELSE IF \E comp \in DurationComponents : DurationCode(comp) = Val(duration)
  THEN SecondsOf(CHOOSE comp \in DurationComponents : DurationCode(comp) = Val(duration))
  ELSE 0

\* A returned identifier qualifies in everything but its duration
QualifiesApartFromDuration(id) ==
  /\ ~IsNone(up.videos[id])
  /\ LET v == Val(up.videos[id]) IN
     /\ ~IsNone(v.publishedAt)
     /\ PerVideoPredicateNoDuration(NumberOr0(v.viewCount), Val(v.publishedAt), 0,
                                    ratioOf(pickThumb(v.thumbnails)),
                                    OrEmpty(v.title), cfg, now - cfg.days)
     /\ ~IsNone(v.channelId)
     /\ ~IsNone(up.channels[Val(v.channelId)])
     /\ ~IsNone(ResolvedLanguage(id))
     /\ Val(ResolvedLanguage(id)) \in cfg.allowedLangsSet
     /\ WithinCeiling(id)

\* C22: parseISODuration gives 3600*h + 60*m + s for a code made of any subset
\* of hour, minute and second components and 0 for an absent, empty or
\* component-less code; in videos mode the duration floor is applied to this
\* value: every enriched video carries it, and a video that qualifies in
\* everything else is in the response exactly when it is at least the floor.
C22_DurationParsed ==
  cfg.mode = S_videos =>
    /\ \A k \in 1..Len(loc.videos) :
         LET v == Val(up.videos[loc.videos[k].videoId])
         IN /\ loc.videos[k].durationSec = ExpectedSeconds(v.duration)
            /\ loc.videos[k].durationSec >= cfg.minDurationSec
    /\ VideosDone =>
         \A id \in ReturnedIds({"medium", "long"}, cfg.pages) :
           QualifiesApartFromDuration(id) =>
             (id \in ItemIds <=>
                ExpectedSeconds(Val(up.videos[id]).duration) >= cfg.minDurationSec)

\* A response that carries a video of 1 hour, 2 minutes, 5 seconds
C22_Witness ==
  /\ VideosDone
  /\ \E k \in 1..Len(Items) :
       /\ Val(up.videos[Items[k].videoId]).duration = Some(D_1H2M5S)
       /\ Items[k].durationSec = 3725

\* A response that carries a video whose duration is absent or has no
\* components, under a floor below 0
C22_WitnessZero ==
  /\ VideosDone
  /\ \E k \in 1..Len(Items) :
       /\ Items[k].durationSec = 0
       /\ \/ IsNone(Val(up.videos[Items[k].videoId]).duration)
          \/ Val(up.videos[Items[k].videoId]).duration = Some(<<"P","T">>)

\* The request names one of the three modes
KnownMode == cfg.mode \in {S_videos, S_subnicho, S_rec_channels}

\* The search text has a character that is neither a comma nor whitespace
HasTermText == \E i \in 1..Len(OrEmpty(req.q)) : OrEmpty(req.q)[i] \notin Whitespace \cup {","}

\* C23: a request that passes validation has a term list that is never empty,
\* also when q is only commas and whitespace; every term is non-empty after
\* trimming, and the request queries the upstream for at least one term.
C23_AtLeastOneTerm ==
  (Validated /\ pc # "start" /\ KnownMode) =>
    /\ cfg.terms # <<>>
    /\ \A i \in 1..Len(cfg.terms) : Trim(cfg.terms[i]) # <<>>
    /\ \A k \in SearchCalls : Trim(calls[k].term) # <<>>
    /\ Done => SearchCalls # {}

\* What the code does for C23: every term is non-empty after trimming and
\* every search asks for one of them; the term list is empty exactly when q
\* has nothing but commas and whitespace, and then the request ends without
\* an upstream call; otherwise it queries the upstream at least once.
C23_TermsNonEmptyAfterTrim ==
  (Validated /\ pc # "start" /\ KnownMode) =>
    /\ \A i \in 1..Len(cfg.terms) : Trim(cfg.terms[i]) # <<>>
    /\ \A k \in SearchCalls :
         Trim(calls[k].term) # <<>> /\ calls[k].term \in Range(cfg.terms)
    /\ cfg.terms = <<>> <=> ~HasTermText
    /\ Done => (calls = <<>> <=> ~HasTermText)

====
